---- MODULE Spec2Model ----
(***************************************************************************)
(* Model of the combat kernel of rpg-mcp: the CombatEngine class           *)
(* (src/src/engine/combat/engine.ts) and the combat tool handlers          *)
(* (src/src/server/combat-tools.ts) with the in-memory registry, the       *)
(* encounter store and the character store they read and write.            *)
(***************************************************************************)
EXTENDS Integers, Sequences, FiniteSets, TLC

VARIABLES
    engine,      \* a stand-alone CombatEngine instance (engine-level API)
    twin,        \* a second CombatEngine built with the same seed
    registry,    \* CombatManager: "session:encounterId" -> CombatEngine
    store,       \* EncounterRepository rows: encounterId -> row
    characters,  \* CharacterRepository rows: character id -> hp
    auditLog,    \* AuditLogger: the recorded tool invocations, in dispatch order
    replay,      \* the replay of auditLog: its position and the state it rebuilt
    clock,       \* the wall clock read by Date.now()
    ncalls,      \* number of calls made so far
    advances,    \* number of turn advances of the stand-alone engine
    lastCall,    \* the last call and its outcome
    world,       \* the world held by the world tools (server/tools.ts)
    magic,       \* AuraRepository and ConcentrationRepository rows
    bus,         \* PubSub: the subscribers and what was delivered to them
    worlds,      \* WorldRepository rows and the worlds of the WorldManager
    inflight,    \* the context holders of the consolidated tools, and their calls
    quests       \* QuestRepository: the quests and the characters' quest logs

vars == <<engine, twin, registry, store, characters, auditLog, replay,
          clock, ncalls, advances, lastCall, world, magic, bus, worlds, inflight, quests>>

----------------------------------------------------------------------------
(* Bounds of the model *)

MaxCalls == 4          \* calls per behaviour
MaxClock == 1          \* wall-clock readings 0..MaxClock
MaxConditions == 2     \* conditions alive on one participant
GridW == 3             \* modelled part of the grid
GridH == 1

----------------------------------------------------------------------------
(* Identifiers, seeds, positions *)

Ids == {"goblin", "hero"}
Sessions == {"sA", "sB"}
Seeds == {1, 2}

\* a.id.localeCompare(b.id) on the ids of the model
IdRank(id) == IF id = "goblin" THEN 1 ELSE 2

NoPos == [x |-> -1, y |-> -1]
Cells == [x : 0..(GridW - 1), y : 0..(GridH - 1)]

NoScores == [present |-> FALSE, constitution |-> 10, wisdom |-> 10]

\* the seed string of a CombatRNG: either the caller's seed or, for an
\* engine rebuilt from the store, the encounter id
SeedOf(s) == [tag |-> "seed", seed |-> s, now |-> 0]
EncounterIdOf(s, now) == [tag |-> "encounter", seed |-> s, now |-> now]

----------------------------------------------------------------------------
(* CombatRNG: a deterministic stream per seed *)

SeedHash(sd) == (12 * sd.seed + (IF sd.tag = "encounter" THEN 5 + 3 * sd.now ELSE 0)) % 20

NewRng(sd) == [seed |-> sd, n |-> 0]

\* the next die of the stream, 1..sides
Die(rng, sides) == ((SeedHash(rng.seed) + 7 * rng.n) % sides) + 1

Advance(rng) == [rng EXCEPT !.n = @ + 1]

\* rng.d20(bonus): the total of a d20 and the bonus
D20(rng, bonus) == Die(rng, 20) + bonus

\* rng.checkDegree(modifier, dc) on the die r
DegreeOf(r, modifier, dc) ==
    IF r = 20 THEN "critical-success"
    ELSE IF r = 1 THEN "critical-failure"
    ELSE IF r + modifier >= dc + 10 THEN "critical-success"
    ELSE IF r + modifier >= dc THEN "success"
    ELSE IF r + modifier <= dc - 10 THEN "critical-failure"
    ELSE "failure"

CheckDegree(rng, modifier, dc) == DegreeOf(Die(rng, 20), modifier, dc)

\* rng.checkDegreeDetailed(modifier, dc)
CheckDegreeDetailed(rng, modifier, dc) ==
    LET r == Die(rng, 20)
        d == DegreeOf(r, modifier, dc)
    IN [roll |-> r, total |-> r + modifier,
        isNat20 |-> (r = 20), isNat1 |-> (r = 1),
        isHit |-> (d \in {"success", "critical-success"}),
        isCrit |-> (d = "critical-success")]

\* rng.roll("1dN")
RollDice(rng, sides) == Die(rng, sides)

----------------------------------------------------------------------------
(* CombatEngine *)

Max(a, b) == IF a >= b THEN a ELSE b
Min(a, b) == IF a <= b THEN a ELSE b

NullState == [active |-> FALSE, participants |-> <<>>, turnOrder |-> <<>>,
              currentTurnIndex |-> 0, round |-> 0,
              terrain |-> [present |-> FALSE, obstacles |-> {}]]

\* no world has been generated
NoWorld == [present |-> FALSE, width |-> 0, height |-> 0, tiles |-> <<>>,
            structures |-> <<>>]

\* no aura has been created and nobody concentrates
NoMagic == [auras |-> <<>>, concentration |-> <<>>, created |-> 0]

\* new PubSub(): no subscriber
NoBus == [subscribers |-> <<>>, delivered |-> <<>>]

\* no world generated, none persisted
NoWorlds == [store |-> {}, manager |-> {}]

\* no call of a consolidated tool under way, both context holders null
NoCalls == [currentContext |-> [world_map |-> "null", spatial_manage |-> "null"],
            calls |-> <<>>]

\* no quest and no quest log; the last two fields record, for the
\* properties, what was done while a quest was active for a character
NoQuests == [quests |-> <<>>, logs |-> <<>>, assigned |-> {}, done |-> {}]

\* new CombatEngine(seed)
NewEngine(sd) == [rng |-> NewRng(sd), state |-> NullState]

\* participants.find(p => p.id === id): index of the first match, 0 if none
Find(parts, id) ==
    IF \E i \in 1..Len(parts) : parts[i].id = id
    THEN CHOOSE i \in 1..Len(parts) :
            /\ parts[i].id = id
            /\ \A j \in 1..(i - 1) : parts[j].id # id
    ELSE 0

\* detectIsEnemy(id, name) on the ids of the model (names equal ids)
DetectIsEnemy(id) == IF id = "goblin" THEN TRUE ELSE FALSE

\* the comparator with the tie-break turned round (b.id.localeCompare(a.id))
Before_idDescending(a, b) ==
    IF b.initiative # a.initiative
    THEN a.initiative > b.initiative
    ELSE IdRank(a.id) > IdRank(b.id)

\* the comparator of the sort in startEncounter: a goes before b
Before(a, b) ==
    IF b.initiative # a.initiative
    THEN a.initiative > b.initiative
    ELSE IdRank(a.id) < IdRank(b.id)

\* Array.prototype.sort (stable) with the comparator Before
RECURSIVE InsertSorted(_, _)
InsertSorted(p, sorted) ==
    IF sorted = <<>> THEN <<p>>
    ELSE IF Before(p, Head(sorted)) THEN <<p>> \o sorted
    ELSE <<Head(sorted)>> \o InsertSorted(p, Tail(sorted))

RECURSIVE SortParticipants(_)
SortParticipants(parts) ==
    IF parts = <<>> THEN <<>>
    ELSE InsertSorted(parts[Len(parts)],
                      SortParticipants(SubSeq(parts, 1, Len(parts) - 1)))

\* the map of startEncounter: roll initiative for each participant in order
RECURSIVE RollInitiative(_, _)
RollInitiative(rng, parts) ==
    IF parts = <<>> THEN [rng |-> rng, parts |-> <<>>]
    ELSE LET p == Head(parts)
             rest == RollInitiative(Advance(rng), Tail(parts))
         IN [rng |-> rest.rng,
             parts |-> <<[p EXCEPT
                           !.initiative = D20(rng, p.initiativeBonus),
                           !.isEnemy = IF p.isEnemy = "undef"
                                       THEN DetectIsEnemy(p.id)
                                       ELSE p.isEnemy = "yes"]>>
                       \o rest.parts]

TurnOrderOf(parts) == [i \in 1..Len(parts) |-> parts[i].id]

\* startEncounter(participants)
StartEncounter(eng, participants) ==
    LET rolled == RollInitiative(eng.rng, participants)
        sorted == SortParticipants(rolled.parts)
    IN [rng |-> rolled.rng,
        state |-> [active |-> TRUE,
                   participants |-> sorted,
                   turnOrder |-> TurnOrderOf(sorted),
                   currentTurnIndex |-> 0,
                   round |-> 1,
                   terrain |-> [present |-> FALSE, obstacles |-> {}]]]

\* getCurrentParticipant(): index into participants, 0 for null
GetCurrentParticipant(eng) ==
    IF ~eng.state.active THEN 0
    ELSE IF eng.state.currentTurnIndex + 1 \in 1..Len(eng.state.turnOrder)
    THEN Find(eng.state.participants,
              eng.state.turnOrder[eng.state.currentTurnIndex + 1])
    ELSE 0

SetHp(eng, i, hp) == [eng EXCEPT !.state.participants[i].hp = hp]

\* executeAttack without the doubling of the damage on a critical hit
ExecuteAttack_single(eng, actorId, targetId, attackBonus, dc, damage) ==
    LET parts == eng.state.participants
        a == Find(parts, actorId)
        t == Find(parts, targetId)
    IN  IF ~eng.state.active THEN [ok |-> FALSE, error |-> "No active combat", eng |-> eng,
                                    hit |-> FALSE, defeated |-> FALSE, hpBefore |-> 0, hpAfter |-> 0]
        ELSE IF a = 0 THEN [ok |-> FALSE, error |-> "Actor not found", eng |-> eng,
                            hit |-> FALSE, defeated |-> FALSE, hpBefore |-> 0, hpAfter |-> 0]
        ELSE IF t = 0 THEN [ok |-> FALSE, error |-> "Target not found", eng |-> eng,
                            hit |-> FALSE, defeated |-> FALSE, hpBefore |-> 0, hpAfter |-> 0]
        ELSE LET attackRoll == CheckDegreeDetailed(eng.rng, attackBonus, dc)
                 damageDealt == IF attackRoll.isHit THEN damage ELSE 0
                 hp == IF attackRoll.isHit
                       THEN Max(0, parts[t].hp - damageDealt)
                       ELSE parts[t].hp
             IN [ok |-> TRUE, error |-> "",
                 eng |-> SetHp([eng EXCEPT !.rng = Advance(@)], t, hp),
                 hit |-> attackRoll.isHit, defeated |-> (hp <= 0),
                 hpBefore |-> parts[t].hp, hpAfter |-> hp]

\* executeAttack(actorId, targetId, attackBonus, dc, damage)
ExecuteAttack(eng, actorId, targetId, attackBonus, dc, damage) ==
    LET parts == eng.state.participants
        a == Find(parts, actorId)
        t == Find(parts, targetId)
    IN  IF ~eng.state.active THEN [ok |-> FALSE, error |-> "No active combat", eng |-> eng,
                                    hit |-> FALSE, defeated |-> FALSE, hpBefore |-> 0, hpAfter |-> 0]
        ELSE IF a = 0 THEN [ok |-> FALSE, error |-> "Actor not found", eng |-> eng,
                            hit |-> FALSE, defeated |-> FALSE, hpBefore |-> 0, hpAfter |-> 0]
        ELSE IF t = 0 THEN [ok |-> FALSE, error |-> "Target not found", eng |-> eng,
                            hit |-> FALSE, defeated |-> FALSE, hpBefore |-> 0, hpAfter |-> 0]
        ELSE LET attackRoll == CheckDegreeDetailed(eng.rng, attackBonus, dc)
                 damageDealt == IF attackRoll.isHit
                                THEN (IF attackRoll.isCrit THEN damage * 2 ELSE damage)
                                ELSE 0
                 hp == IF attackRoll.isHit
                       THEN Max(0, parts[t].hp - damageDealt)
                       ELSE parts[t].hp
             IN [ok |-> TRUE, error |-> "",
                 eng |-> SetHp([eng EXCEPT !.rng = Advance(@)], t, hp),
                 hit |-> attackRoll.isHit, defeated |-> (hp <= 0),
                 hpBefore |-> parts[t].hp, hpAfter |-> hp]

\* executeHeal(actorId, targetId, amount)
ExecuteHeal(eng, actorId, targetId, amount) ==
    LET parts == eng.state.participants
        a == Find(parts, actorId)
        t == Find(parts, targetId)
    IN  IF ~eng.state.active THEN [ok |-> FALSE, error |-> "No active combat", eng |-> eng, healAmount |-> 0]
        ELSE IF a = 0 THEN [ok |-> FALSE, error |-> "Actor not found", eng |-> eng, healAmount |-> 0]
        ELSE IF t = 0 THEN [ok |-> FALSE, error |-> "Target not found", eng |-> eng, healAmount |-> 0]
        ELSE [ok |-> TRUE, error |-> "",
              eng |-> SetHp(eng, t, Min(parts[t].maxHp, parts[t].hp + amount)),
              healAmount |-> Min(amount, parts[t].maxHp - parts[t].hp)]

\* applyDamage(participantId, damage)
ApplyDamage(eng, participantId, damage) ==
    LET i == Find(eng.state.participants, participantId)
    IN IF ~eng.state.active \/ i = 0 THEN eng
       ELSE SetHp(eng, i, Max(0, eng.state.participants[i].hp - damage))

\* heal(participantId, amount)
Heal(eng, participantId, amount) ==
    LET i == Find(eng.state.participants, participantId)
    IN IF ~eng.state.active \/ i = 0 THEN eng
       ELSE SetHp(eng, i, Min(eng.state.participants[i].maxHp,
                              eng.state.participants[i].hp + amount))

----------------------------------------------------------------------------
(* Conditions *)

Undefined == -99

\* CONDITION_EFFECTS[type].canTakeActions === false
Incapacitating == {"stunned", "paralyzed", "unconscious", "petrified"}

\* applyCondition(participantId, condition); now and rnd are the values of
\* Date.now() and Math.random() that go into the generated id
ApplyCondition(eng, participantId, condition, now, rnd) ==
    LET i == Find(eng.state.participants, participantId)
        fullCondition == [condition EXCEPT
                            !.id = [pid |-> participantId, type |-> condition.type,
                                    now |-> now, rnd |-> rnd]]
    IN  IF ~eng.state.active THEN [ok |-> FALSE, error |-> "No active combat", eng |-> eng]
        ELSE IF i = 0 THEN [ok |-> FALSE, error |-> "Participant not found", eng |-> eng]
        ELSE [ok |-> TRUE, error |-> "",
              eng |-> [eng EXCEPT !.state.participants[i].conditions =
                                        Append(@, fullCondition)]]

\* conditions.filter(c => c.id !== conditionId)
RECURSIVE FilterOutId(_, _)
FilterOutId(conds, cid) ==
    IF conds = <<>> THEN <<>>
    ELSE IF Head(conds).id = cid THEN FilterOutId(Tail(conds), cid)
    ELSE <<Head(conds)>> \o FilterOutId(Tail(conds), cid)

\* removeCondition(participantId, conditionId)
RemoveCondition(eng, participantId, cid) ==
    LET i == Find(eng.state.participants, participantId)
    IN IF ~eng.state.active \/ i = 0 THEN eng
       ELSE [eng EXCEPT !.state.participants[i].conditions = FilterOutId(@, cid)]

\* condition.duration-- on the condition object held by participant pi
DecrementDuration(eng, pi, cid) ==
    [eng EXCEPT !.state.participants[pi].conditions =
        [k \in 1..Len(@) |-> IF @[k].id = cid
                             THEN [@[k] EXCEPT !.duration = @ - 1]
                             ELSE @[k]]]

\* the loop over condition.ongoingEffects, for one trigger
RECURSIVE FireEffects(_, _, _, _)
FireEffects(eng, pid, effects, trigger) ==
    IF effects = <<>> THEN eng
    ELSE LET e == Head(effects)
             after ==
                IF e.trigger # trigger THEN eng
                ELSE IF e.type = "damage" /\ e.amount # Undefined /\ e.amount # 0
                     THEN ApplyDamage(eng, pid, e.amount)
                ELSE IF e.type = "healing" /\ e.amount # Undefined /\ e.amount # 0
                     THEN Heal(eng, pid, e.amount)
                ELSE IF e.type = "damage" /\ e.dice # Undefined
                     THEN ApplyDamage([eng EXCEPT !.rng = Advance(@)], pid,
                                      RollDice(eng.rng, e.dice))
                ELSE eng
         IN FireEffects(after, pid, Tail(effects), trigger)

\* the duration handling of processStartOfTurnConditions for condition c
StartOfTurnDuration(eng, pi, pid, c) ==
    IF c.durationType = "start_of_turn"
    THEN RemoveCondition(eng, pid, c.id)
    ELSE IF c.durationType = "rounds" /\ c.duration # Undefined
    THEN IF c.duration - 1 <= 0
         THEN RemoveCondition(DecrementDuration(eng, pi, c.id), pid, c.id)
         ELSE DecrementDuration(eng, pi, c.id)
    ELSE eng

\* processStartOfTurnConditions(participant), over the snapshot conds
RECURSIVE ProcessStartOfTurnConditions(_, _, _)
ProcessStartOfTurnConditions(eng, pi, conds) ==
    IF conds = <<>> THEN eng
    ELSE ProcessStartOfTurnConditions(
            StartOfTurnDuration(
                FireEffects(eng, eng.state.participants[pi].id,
                            Head(conds).ongoingEffects, "start_of_turn"),
                pi, eng.state.participants[pi].id, Head(conds)),
            pi, Tail(conds))

\* getSaveBonus(participant, ability) without the halving of the score
GetSaveBonus_whole(p, ability) ==
    IF ~p.abilityScores.present THEN 0
    ELSE p.abilityScores[ability] - 10

\* getSaveBonus(participant, ability)
GetSaveBonus(p, ability) ==
    IF ~p.abilityScores.present THEN 0
    ELSE (p.abilityScores[ability] - 10) \div 2

\* the end_of_turn expiry of processEndOfTurnConditions for condition c
EndOfTurnDuration(eng, p, c) ==
    IF c.durationType = "end_of_turn"
    THEN RemoveCondition(eng, p.id, c.id)
    ELSE eng

\* the save_ends roll of processEndOfTurnConditions for condition c
SaveEnds(eng, p, c) ==
    IF c.durationType = "save_ends" /\ c.saveDC # Undefined /\ c.saveDC # 0
       /\ c.saveAbility # ""
    THEN IF CheckDegree(eng.rng, GetSaveBonus(p, c.saveAbility), c.saveDC)
                \in {"success", "critical-success"}
         THEN RemoveCondition([eng EXCEPT !.rng = Advance(@)], p.id, c.id)
         ELSE [eng EXCEPT !.rng = Advance(@)]
    ELSE eng

\* processEndOfTurnConditions(participant), over the snapshot conds
RECURSIVE ProcessEndOfTurnConditions(_, _, _)
ProcessEndOfTurnConditions(eng, pi, conds) ==
    IF conds = <<>> THEN eng
    ELSE ProcessEndOfTurnConditions(
            SaveEnds(
                EndOfTurnDuration(
                    FireEffects(eng, eng.state.participants[pi].id,
                                Head(conds).ongoingEffects, "end_of_turn"),
                    eng.state.participants[pi], Head(conds)),
                eng.state.participants[pi], Head(conds)),
            pi, Tail(conds))

\* nextTurnWithConditions(): the end-of-turn conditions of the participant cur
EndCurrentTurn(eng, cur) ==
    IF cur # 0
    THEN ProcessEndOfTurnConditions(eng, cur, eng.state.participants[cur].conditions)
    ELSE eng

\* nextTurnWithConditions() with the wrap test off by one
AdvanceIndex_mut(eng) ==
    LET idx == eng.state.currentTurnIndex + 1
        wrapped == idx > Len(eng.state.turnOrder)
    IN [eng EXCEPT !.state.currentTurnIndex = IF wrapped THEN 0 ELSE idx,
                   !.state.round = IF wrapped THEN @ + 1 ELSE @]

\* nextTurnWithConditions(): the index moves on, the round grows on a wrap
AdvanceIndex(eng) ==
    LET idx == eng.state.currentTurnIndex + 1
        wrapped == idx >= Len(eng.state.turnOrder)
    IN [eng EXCEPT !.state.currentTurnIndex = IF wrapped THEN 0 ELSE idx,
                   !.state.round = IF wrapped THEN @ + 1 ELSE @]

\* nextTurnWithConditions(): the start-of-turn conditions of the participant new
StartNewTurn(eng, new) ==
    IF new # 0
    THEN ProcessStartOfTurnConditions(eng, new, eng.state.participants[new].conditions)
    ELSE eng

\* nextTurnWithConditions()
NextTurnWithConditions(eng) ==
    IF ~eng.state.active THEN eng
    ELSE LET ended == EndCurrentTurn(eng, GetCurrentParticipant(eng))
             moved == AdvanceIndex(ended)
         IN StartNewTurn(moved, GetCurrentParticipant(moved))

\* canTakeActions(participantId)
CanTakeActions(eng, participantId) ==
    LET i == Find(eng.state.participants, participantId)
    IN /\ eng.state.active
       /\ i # 0
       /\ eng.state.participants[i].hp > 0
       /\ ~\E k \in 1..Len(eng.state.participants[i].conditions) :
             eng.state.participants[i].conditions[k].type \in Incapacitating

----------------------------------------------------------------------------
(* Inputs of the calls *)

\* a participant as the callers pass it (hp and maxHp positive integers)
Participant(id, hp, maxHp, pos) ==
    [id |-> id, initiativeBonus |-> 0, initiative |-> Undefined,
     isEnemy |-> "undef", hp |-> hp, maxHp |-> maxHp, conditions |-> <<>>,
     abilityScores |-> NoScores, position |-> pos,
     reactionUsed |-> FALSE, hasDisengaged |-> FALSE]

\* participant lists the schema accepts: one or more participants, ids free
EngineParticipantLists ==
    { <<[Participant("hero", 2, 2, NoPos) EXCEPT
            !.abilityScores = [present |-> TRUE, constitution |-> 7, wisdom |-> 10]]>>,
      <<Participant("hero", 2, 2, NoPos), Participant("goblin", 2, 2, NoPos)>>,
      <<Participant("goblin", 2, 2, NoPos), Participant("goblin", 2, 2, NoPos)>> }

Effect(trigger, type, amount, dice) ==
    [trigger |-> trigger, type |-> type, amount |-> amount, dice |-> dice]

Condition(type, durationType, duration, saveDC, saveAbility, effects) ==
    [id |-> [pid |-> "", type |-> "", now |-> 0, rnd |-> 0],
     type |-> type, durationType |-> durationType, duration |-> duration,
     saveDC |-> saveDC, saveAbility |-> saveAbility, ongoingEffects |-> effects]

ConditionInputs ==
    { Condition("poisoned", "rounds", 2, Undefined, "",
                <<Effect("start_of_turn", "damage", 1, Undefined)>>),
      Condition("stunned", "save_ends", Undefined, 10, "constitution", <<>>),
      Condition("blessed", "end_of_turn", Undefined, Undefined, "",
                <<Effect("end_of_turn", "healing", 1, Undefined)>>) }

Damages == {1, -1}
HealAmounts == {1, -1}
AttackBonus == 5
AttackDC == 10

\* values of Math.random(); a generated id never repeats one still in use
RandomValues == {1, 2}

NoCall == [op |-> "none", ok |-> TRUE, error |-> "", session |-> "",
           encounterId |-> EncounterIdOf(0, 0), actorId |-> "", targetId |-> "",
           hit |-> FALSE]

CallOf(op, ok, error, actorId, targetId) ==
    [NoCall EXCEPT !.op = op, !.ok = ok, !.error = error,
                   !.actorId = actorId, !.targetId = targetId]

----------------------------------------------------------------------------
(* The engine-level specification: one CombatEngine driven through its API *)

\* the replay before it has started, over the stores as they are at startup
NoReplay(chars) ==
    [on |-> FALSE, pos |-> 0,
     sys |-> [registry |-> <<>>, store |-> <<>>, characters |-> chars]]

EngineInit ==
    /\ engine \in {NewEngine(SeedOf(s)) : s \in Seeds}
    /\ twin = engine
    /\ registry = <<>>
    /\ store = <<>>
    /\ characters = <<>>
    /\ auditLog = <<>>
    /\ replay = NoReplay(<<>>)
    /\ clock = 0
    /\ ncalls = 0
    /\ advances = 0
    /\ lastCall = NoCall
    /\ world = NoWorld
    /\ magic = NoMagic
    /\ bus = NoBus
    /\ worlds = NoWorlds
    /\ inflight = NoCalls
    /\ quests = NoQuests

EngineFrame ==
    UNCHANGED <<registry, store, characters, auditLog, replay, world, magic, worlds, inflight, quests, bus>>

EngStartEncounter(lists) ==
    /\ ncalls < MaxCalls
    /\ ~engine.state.active
    /\ \E parts \in lists :
          engine' = StartEncounter(engine, parts)
    /\ ncalls' = ncalls + 1
    /\ advances' = 0
    /\ lastCall' = CallOf("startEncounter", TRUE, "", "", "")
    /\ UNCHANGED <<clock, twin>>
    /\ EngineFrame

EngExecuteAttack ==
    /\ ncalls < MaxCalls
    /\ \E actorId \in Ids, targetId \in Ids, damage \in Damages :
          LET r == ExecuteAttack(engine, actorId, targetId, AttackBonus, AttackDC, damage)
          IN /\ engine' = r.eng
             /\ lastCall' = [CallOf("attack", r.ok, r.error, actorId, targetId)
                                EXCEPT !.hit = r.hit]
    /\ ncalls' = ncalls + 1
    /\ UNCHANGED <<clock, advances, twin>>
    /\ EngineFrame

EngExecuteHeal ==
    /\ ncalls < MaxCalls
    /\ \E actorId \in Ids, targetId \in Ids, amount \in HealAmounts :
          LET r == ExecuteHeal(engine, actorId, targetId, amount)
          IN /\ engine' = r.eng
             /\ lastCall' = CallOf("heal", r.ok, r.error, actorId, targetId)
    /\ ncalls' = ncalls + 1
    /\ UNCHANGED <<clock, advances, twin>>
    /\ EngineFrame

ConditionCount(eng, pid) ==
    LET i == Find(eng.state.participants, pid)
    IN IF i = 0 THEN 0 ELSE Len(eng.state.participants[i].conditions)

ConditionIdsOf(eng) ==
    UNION {{eng.state.participants[i].conditions[k].id :
                k \in 1..Len(eng.state.participants[i].conditions)} :
           i \in 1..Len(eng.state.participants)}

EngApplyCondition(conditions) ==
    /\ ncalls < MaxCalls
    /\ \E pid \in Ids, c \in conditions, rnd \in RandomValues :
          /\ ConditionCount(engine, pid) < MaxConditions
          /\ [pid |-> pid, type |-> c.type, now |-> clock, rnd |-> rnd]
                \notin ConditionIdsOf(engine)
          /\ LET r == ApplyCondition(engine, pid, c, clock, rnd)
             IN /\ engine' = r.eng
                /\ lastCall' = CallOf("applyCondition", r.ok, r.error, "", pid)
    /\ ncalls' = ncalls + 1
    /\ UNCHANGED <<clock, advances, twin>>
    /\ EngineFrame

EngNextTurn ==
    /\ ncalls < MaxCalls
    /\ engine.state.active
    /\ engine' = NextTurnWithConditions(engine)
    /\ advances' = advances + 1
    /\ ncalls' = ncalls + 1
    /\ lastCall' = CallOf("advanceTurn", TRUE, "", "", "")
    /\ UNCHANGED <<clock, twin>>
    /\ EngineFrame

Tick ==
    /\ clock < MaxClock
    /\ clock' = clock + 1
    /\ UNCHANGED <<engine, twin, registry, store, characters, auditLog, replay,
                   ncalls, advances, lastCall, world, magic, worlds, inflight, quests, bus>>

EngineNext ==
    \/ EngStartEncounter(EngineParticipantLists)
    \/ EngExecuteAttack
    \/ EngExecuteHeal
    \/ EngApplyCondition(ConditionInputs)
    \/ EngNextTurn
    \/ Tick

SpecEngine == EngineInit /\ [][EngineNext]_vars

----------------------------------------------------------------------------
(* Opportunity attacks, disengage and path finding used by the move branch *)

OABonus == 5
OADC == 10
OADamage == 1

Abs(a) == IF a < 0 THEN -a ELSE a

\* the 8-neighbourhood of a cell
Adjacent(p, q) == p # q /\ Abs(p.x - q.x) <= 1 /\ Abs(p.y - q.y) <= 1

\* engine.disengage(actorId)
Disengage(eng, actorId) ==
    LET i == Find(eng.state.participants, actorId)
    IN IF i = 0 THEN eng
       ELSE [eng EXCEPT !.state.participants[i].hasDisengaged = TRUE]

\* engine.getOpportunityAttackers(actorId, from, to): indices in turn order
RECURSIVE OpportunityAttackersFrom(_, _, _, _, _)
OpportunityAttackersFrom(eng, k, m, from, to) ==
    IF k > Len(eng.state.participants) THEN <<>>
    ELSE LET p == eng.state.participants[k]
             mover == eng.state.participants[m]
             threatens == /\ k # m
                          /\ p.id # mover.id
                          /\ p.hp > 0
                          /\ p.position # NoPos
                          /\ p.isEnemy # mover.isEnemy
                          /\ ~p.reactionUsed
                          /\ Adjacent(p.position, from)
                          /\ ~Adjacent(p.position, to)
                          /\ p.position # to
         IN (IF threatens THEN <<p.id>> ELSE <<>>)
                \o OpportunityAttackersFrom(eng, k + 1, m, from, to)

GetOpportunityAttackers(eng, actorId, from, to) ==
    LET m == Find(eng.state.participants, actorId)
    IN IF m = 0 \/ eng.state.participants[m].hasDisengaged THEN <<>>
       ELSE OpportunityAttackersFrom(eng, 1, m, from, to)

\* executeOpportunityAttack: the attacker's reaction is spent
SpendReaction(r, a) ==
    IF r.ok
    THEN [r EXCEPT !.eng.state.participants[a].reactionUsed = TRUE]
    ELSE r

\* engine.executeOpportunityAttack(attackerId, targetId)
ExecuteOpportunityAttack(eng, attackerId, targetId) ==
    SpendReaction(ExecuteAttack(eng, attackerId, targetId, OABonus, OADC, OADamage),
                  Find(eng.state.participants, attackerId))

\* the tiles the path search may visit: the modelled grid and a free margin
SearchArea == [x : (-1)..GridW, y : (-1)..GridH]

\* one step of the search: a neighbour not blocked; a diagonal step is
\* refused when both orthogonal neighbours are obstacles
CanStep(p, q, obstacles) ==
    /\ Adjacent(p, q)
    /\ q \notin obstacles
    /\ (p.x # q.x /\ p.y # q.y) =>
          ~([x |-> q.x, y |-> p.y] \in obstacles /\ [x |-> p.x, y |-> q.y] \in obstacles)

\* breadth-first search from the frontier; seen are the tiles already visited
RECURSIVE PathExists(_, _, _, _)
PathExists(frontier, seen, to, obstacles) ==
    IF to \in frontier THEN TRUE
    ELSE LET new == {q \in SearchArea \ seen :
                        \E p \in frontier : CanStep(p, q, obstacles)}
         IN IF new = {} THEN FALSE
            ELSE PathExists(new, seen \cup new, to, obstacles)

\* SpatialEngine.findPath(from, to, obstacles) # null
FindPath(from, to, obstacles) == PathExists({from}, {from}, to, obstacles)

----------------------------------------------------------------------------
(* CombatManager, EncounterRepository, CharacterRepository *)

Key(session, encounterId) == [session |-> session, id |-> encounterId]

\* getCombatManager().create(key, engine)
ManagerCreate(reg, key, eng) ==
    [k \in DOMAIN reg \cup {key} |-> IF k = key THEN eng ELSE reg[k]]

\* getCombatManager().delete(key)
ManagerDelete(reg, key) == [k \in DOMAIN reg \ {key} |-> reg[k]]

\* the token written by repo.create: id, name, initiativeBonus, initiative,
\* isEnemy, hp, maxHp, conditions, abilityScores
TokenOf(p) == [p EXCEPT !.position = NoPos, !.reactionUsed = FALSE,
                        !.hasDisengaged = FALSE, !.resistances = {},
                        !.vulnerabilities = {}, !.immunities = {}]

\* repo.create(row)
RepoCreate(st, encounterId, state, now) ==
    [k \in DOMAIN st \cup {encounterId} |->
        IF k = encounterId
        THEN [state |-> [state EXCEPT
                            !.participants = [i \in 1..Len(@) |-> TokenOf(@[i])],
                            !.terrain = [present |-> FALSE, obstacles |-> {}]],
              status |-> "active", createdAt |-> now, updatedAt |-> now]
        ELSE st[k]]

\* repo.saveState(encounterId, state)
RepoSaveState(st, encounterId, state, now) ==
    IF encounterId \in DOMAIN st
    THEN [st EXCEPT ![encounterId].state = state, ![encounterId].updatedAt = now]
    ELSE st

\* repo.loadState(encounterId) # null
RepoHasState(st, encounterId) == encounterId \in DOMAIN st

\* repo.loadState(encounterId)
RepoLoadState(st, encounterId) == st[encounterId].state

\* charRepo.findById(id) # null
CharFind(chars, id) == id \in DOMAIN chars

\* charRepo.update(id, {hp})
CharUpdate(chars, id, hp) == [chars EXCEPT ![id] = hp]

----------------------------------------------------------------------------
(* Tool handlers of combat-tools.ts; sys is the registry, the encounter    *)
(* store and the character store                                           *)

Result(sys, ok, error) ==
    [sys |-> sys, ok |-> ok, error |-> error, hit |-> FALSE,
     encounterId |-> EncounterIdOf(0, 0)]

\* handleCreateEncounter: the engine is registered and its state persisted
RegisterEncounter(sys, session, encounterId, eng, now) ==
    IF encounterId \in DOMAIN sys.store
    THEN [Result([sys EXCEPT !.registry =
                        ManagerCreate(@, Key(session, encounterId), eng)],
                 FALSE, "Persistence")
             EXCEPT !.encounterId = encounterId]
    ELSE [Result([sys EXCEPT !.registry =
                        ManagerCreate(@, Key(session, encounterId), eng),
                             !.store = RepoCreate(@, encounterId, eng.state, now)],
                 TRUE, "")
             EXCEPT !.encounterId = encounterId]

\* handleCreateEncounter: the terrain of the arguments is put on the state
WithTerrain(eng, terrain) ==
    IF terrain.present THEN [eng EXCEPT !.state.terrain = terrain] ELSE eng

\* an optional array of damage types of the arguments, {} when it is absent
Optional(p, key) == IF key \in DOMAIN p THEN p[key] ELSE {}

\* handleCreateEncounter: the CombatParticipant built from a parsed
\* participant p. The fields are copied one by one and conditions start
\* empty; a key of the arguments that is not copied is not on the participant
ConvertParticipant(p) ==
    [id |-> p.id, initiativeBonus |-> p.initiativeBonus,
     initiative |-> Undefined, isEnemy |-> p.isEnemy,
     hp |-> p.hp, maxHp |-> p.maxHp, conditions |-> <<>>,
     abilityScores |-> NoScores, position |-> p.position,
     reactionUsed |-> FALSE, hasDisengaged |-> FALSE,
     resistances |-> Optional(p, "resistances"),
     vulnerabilities |-> Optional(p, "vulnerabilities"),
     immunities |-> Optional(p, "immunities")]

\* handleCreateEncounter(args, ctx)
HandleCreateEncounter(sys, session, seed, participants, terrain, now) ==
    IF Len(participants) < 1 THEN Result(sys, FALSE, "Validation")
    ELSE RegisterEncounter(sys, session, EncounterIdOf(seed, now),
            WithTerrain(StartEncounter(NewEngine(SeedOf(seed)),
                            [i \in 1..Len(participants) |->
                                ConvertParticipant(participants[i])]),
                        terrain),
            now)

\* the lookup with auto-load that opens get, execute and advance
AutoLoad(sys, session, encounterId) ==
    LET key == Key(session, encounterId)
    IN IF key \in DOMAIN sys.registry
       THEN [found |-> TRUE, sys |-> sys]
       ELSE IF ~RepoHasState(sys.store, encounterId)
       THEN [found |-> FALSE, sys |-> sys]
       ELSE [found |-> TRUE,
             sys |-> [sys EXCEPT !.registry =
                        ManagerCreate(@, key,
                            [rng |-> NewRng(encounterId),
                             state |-> RepoLoadState(sys.store, encounterId)])]]

\* handleGetEncounterState after the lookup l
GetLoaded(l, sys, key) ==
    IF ~l.found THEN Result(sys, FALSE, "Encounter not found")
    ELSE IF ~l.sys.registry[key].state.active
    THEN Result(l.sys, FALSE, "No active encounter")
    ELSE Result(l.sys, TRUE, "")

\* handleGetEncounterState(args, ctx)
HandleGetEncounterState(sys, session, encounterId) ==
    GetLoaded(AutoLoad(sys, session, encounterId), sys, Key(session, encounterId))

\* the loop over the opportunity attackers of the move branch: after the
\* attack oa the loop breaks if the mover is defeated
RECURSIVE OpportunityLoop(_, _, _)
AfterOpportunityAttack(oa, attackers, actorId) ==
    IF oa.defeated THEN oa.eng
    ELSE OpportunityLoop(oa.eng, Tail(attackers), actorId)

\* the loop over the opportunity attackers of the move branch
OpportunityLoop(eng, attackers, actorId) ==
    IF attackers = <<>> THEN eng
    ELSE AfterOpportunityAttack(
            ExecuteOpportunityAttack(eng, Head(attackers), actorId),
            attackers, actorId)

\* the obstacle set of the move branch
ObstaclesFor(state, actorId) ==
    {state.participants[k].position :
        k \in {j \in 1..Len(state.participants) :
                 /\ state.participants[j].id # actorId
                 /\ state.participants[j].position # NoPos}}
    \cup (IF state.terrain.present THEN state.terrain.obstacles ELSE {})

\* the move branch once the opportunity attacks are done, without the test
\* that the mover is still standing
CompleteMove_anyHp(after, i, actorPos, target, obstacles) ==
    IF target \in obstacles
    THEN [eng |-> after, ok |-> FALSE, error |-> "Destination is blocked"]
    ELSE IF ~FindPath(actorPos, target, obstacles)
    THEN [eng |-> after, ok |-> FALSE, error |-> "No valid path"]
    ELSE [eng |-> [after EXCEPT !.state.participants[i].position = target],
          ok |-> TRUE, error |-> ""]

\* the move branch once the opportunity attacks are done: the destination
\* and the path are checked, then the position is written
CompleteMove(after, i, actorPos, target, obstacles) ==
    IF after.state.participants[i].hp > 0
    THEN IF target \in obstacles
         THEN [eng |-> after, ok |-> FALSE, error |-> "Destination is blocked"]
         ELSE IF ~FindPath(actorPos, target, obstacles)
         THEN [eng |-> after, ok |-> FALSE, error |-> "No valid path"]
         ELSE [eng |-> [after EXCEPT !.state.participants[i].position = target],
               ok |-> TRUE, error |-> ""]
    ELSE [eng |-> after, ok |-> FALSE, error |-> "Defeated"]

\* the move branch from the opportunity attacks on
MoveAfterAttacks(after, i, actorId, actorPos, target) ==
    CompleteMove(after, i, actorPos, target, ObstaclesFor(after.state, actorId))

\* the move branch of handleExecuteCombatAction
MoveBranch(eng, actorId, target) ==
    LET i == Find(eng.state.participants, actorId)
    IN  IF ~eng.state.active THEN [eng |-> eng, ok |-> FALSE, error |-> "No combat state"]
        ELSE IF i = 0 THEN [eng |-> eng, ok |-> FALSE, error |-> "Actor not found"]
        ELSE IF eng.state.participants[i].position = NoPos
        THEN [eng |-> [eng EXCEPT !.state.participants[i].position = target],
              ok |-> TRUE, error |-> ""]
        ELSE MoveAfterAttacks(
                OpportunityLoop(eng,
                    GetOpportunityAttackers(eng, actorId,
                        eng.state.participants[i].position, target),
                    actorId),
                i, actorId, eng.state.participants[i].position, target)

\* the disengage branch of handleExecuteCombatAction
DisengageBranch(eng, actorId) ==
    IF ~eng.state.active THEN [eng |-> eng, ok |-> FALSE, error |-> "No combat state"]
    ELSE IF Find(eng.state.participants, actorId) = 0
    THEN [eng |-> eng, ok |-> FALSE, error |-> "Actor not found"]
    ELSE [eng |-> Disengage(eng, actorId), ok |-> TRUE, error |-> ""]

NoHit(r) == [eng |-> r.eng, ok |-> r.ok, error |-> r.error, hit |-> FALSE]

\* handleExecuteCombatAction: args.action selects the branch run on the engine
ActionBranch(eng, args) ==
    IF args.action = "attack"
    THEN ExecuteAttack(eng, args.actorId, args.targetId,
                       args.attackBonus, args.dc, args.damage)
    ELSE IF args.action = "heal"
    THEN NoHit(ExecuteHeal(eng, args.actorId, args.targetId, args.amount))
    ELSE IF args.action = "disengage"
    THEN NoHit(DisengageBranch(eng, args.actorId))
    ELSE IF args.action = "move"
    THEN NoHit(MoveBranch(eng, args.actorId, args.targetPosition))
    ELSE [eng |-> eng, ok |-> FALSE, error |-> "Validation", hit |-> FALSE]

\* handleExecuteCombatAction: a throw of the branch leaves the handler; else
\* the state is saved and the response built from the outcome r
SaveAction(sys, key, encounterId, r, now) ==
    IF ~r.ok /\ r.error \notin {"Destination is blocked", "No valid path", "Defeated"}
    THEN Result(sys, FALSE, r.error)
    ELSE [Result([sys EXCEPT
                    !.registry[key] = r.eng,
                    !.store = IF r.eng.state.active
                              THEN RepoSaveState(@, encounterId, r.eng.state, now)
                              ELSE @],
                 r.ok, r.error)
            EXCEPT !.hit = r.hit]

\* handleExecuteCombatAction after the lookup l
ExecuteLoaded(l, sys, key, encounterId, args, now) ==
    IF ~l.found THEN Result(sys, FALSE, "Encounter not found")
    ELSE SaveAction(l.sys, key, encounterId,
                    ActionBranch(l.sys.registry[key], args), now)

\* the actions EXECUTE_COMBAT_ACTION.inputSchema accepts
ActionEnum == {"attack", "heal", "move", "disengage"}

\* handleExecuteCombatAction(args, ctx): the arguments are parsed before the
\* encounter is looked up
HandleExecuteCombatAction(sys, session, encounterId, args, now) ==
    IF args.action \notin ActionEnum THEN Result(sys, FALSE, "Validation")
    ELSE ExecuteLoaded(AutoLoad(sys, session, encounterId), sys,
                       Key(session, encounterId), encounterId, args, now)

\* handleAdvanceTurn: the advanced engine is kept and its state saved
SaveTurn(sys, key, encounterId, eng, now) ==
    Result([sys EXCEPT
              !.registry[key] = eng,
              !.store = IF eng.state.active
                        THEN RepoSaveState(@, encounterId, eng.state, now)
                        ELSE @],
           TRUE, "")

\* handleAdvanceTurn after the lookup l
AdvanceLoaded(l, sys, key, encounterId, now) ==
    IF ~l.found THEN Result(sys, FALSE, "Encounter not found")
    ELSE SaveTurn(l.sys, key, encounterId,
                  NextTurnWithConditions(l.sys.registry[key]), now)

\* handleAdvanceTurn(args, ctx)
HandleAdvanceTurn(sys, session, encounterId, now) ==
    AdvanceLoaded(AutoLoad(sys, session, encounterId), sys,
                  Key(session, encounterId), encounterId, now)

\* the HP sync loop of handleEndEncounter
RECURSIVE SyncHp(_, _)
SyncHp(chars, parts) ==
    IF parts = <<>> THEN chars
    ELSE SyncHp(IF CharFind(chars, Head(parts).id)
                THEN CharUpdate(chars, Head(parts).id, Head(parts).hp)
                ELSE chars,
                Tail(parts))

\* handleEndEncounter(args, ctx)
HandleEndEncounter(sys, session, encounterId) ==
    LET key == Key(session, encounterId)
    IN IF key \notin DOMAIN sys.registry
       THEN Result(sys, FALSE, "Encounter not found")
       ELSE Result([sys EXCEPT
                      !.characters = IF sys.registry[key].state.active
                                     THEN SyncHp(@, sys.registry[key].state.participants)
                                     ELSE @,
                      !.registry = ManagerDelete(@, key)],
                   TRUE, "")

\* handleGetCharacter: the hp of a stored character
GetCharacterHp(chars, id) == chars[id]

----------------------------------------------------------------------------
(* The tool-level specification: the handlers called in any order *)

MaxEncounters == 1     \* encounters created per behaviour

CharacterIds == {"hero"}

ToolParticipants ==
    { Participant("hero", 2, 2, [x |-> 1, y |-> 0]),
      Participant("goblin", 2, 2, [x |-> 0, y |-> 0]),
      Participant("goblin", 1, 2, NoPos) }

ToolDamages == {2}
ToolHealAmounts == {1}

\* the participant ids a caller names in a call on encounter id
NamedIds(id) == IF id = EncounterIdOf(0, 0) THEN {"hero"} ELSE Ids
NamedCells(id) == IF id = EncounterIdOf(0, 0) THEN {[x |-> 0, y |-> 0]} ELSE Cells

ToolParticipantLists ==
    {<<p>> : p \in ToolParticipants}
        \cup {<<p, q>> : p \in ToolParticipants, q \in ToolParticipants}

Terrains == { [present |-> FALSE, obstacles |-> {}],
              [present |-> TRUE, obstacles |-> {[x |-> 2, y |-> 0]}] }

NoEncounter == EncounterIdOf(0, 0)

\* the session contexts of the callers of Spec
Callers == {"sA"}

\* the encounter ids a caller may name
NameableIds == DOMAIN store \cup {NoEncounter}

Args(action, actorId, targetId) ==
    [action |-> action, actorId |-> actorId, targetId |-> targetId,
     attackBonus |-> AttackBonus, dc |-> AttackDC, damage |-> 0, amount |-> 0,
     targetPosition |-> NoPos]

Sys == [registry |-> registry, store |-> store, characters |-> characters]

Commit(r) ==
    /\ registry' = r.sys.registry
    /\ store' = r.sys.store
    /\ characters' = r.sys.characters

Returned(op, r, session, encounterId, actorId, targetId) ==
    lastCall' = [op |-> op, ok |-> r.ok, error |-> r.error, session |-> session,
                 encounterId |-> encounterId, actorId |-> actorId,
                 targetId |-> targetId, hit |-> r.hit]

\* the handler's outcome r is committed and returned to the caller
Respond(op, r, session, encounterId, actorId, targetId) ==
    /\ Commit(r)
    /\ Returned(op, r, session, encounterId, actorId, targetId)

\* create_encounter returns the id it generated
RespondCreated(r, session) ==
    Respond("create", r, session, r.encounterId, "", "")

Init ==
    /\ engine = NewEngine(SeedOf(1))
    /\ twin = engine
    /\ registry = <<>>
    /\ store = <<>>
    /\ characters = [id \in CharacterIds |-> 2]
    /\ auditLog = <<>>
    /\ replay = NoReplay(characters)
    /\ clock = 0
    /\ ncalls = 0
    /\ advances = 0
    /\ lastCall = NoCall
    /\ world = NoWorld
    /\ magic = NoMagic
    /\ bus = NoBus
    /\ worlds = NoWorlds
    /\ inflight = NoCalls
    /\ quests = NoQuests

Called ==
    /\ ncalls < MaxCalls
    /\ ncalls' = ncalls + 1
    /\ UNCHANGED <<engine, twin, auditLog, replay, clock, advances, world,
                   magic, worlds, inflight, quests, bus>>

CreateEncounter(sessions, lists, terrains) ==
    /\ Called
    /\ Cardinality(DOMAIN store) < MaxEncounters
    /\ \E session \in sessions, seed \in Seeds,
          parts \in lists, terrain \in terrains :
          RespondCreated(HandleCreateEncounter(Sys, session, seed, parts, terrain, clock),
                         session)

GetEncounterState(sessions) ==
    /\ Called
    /\ \E session \in sessions, id \in NameableIds :
          Respond("get", HandleGetEncounterState(Sys, session, id), session, id, "", "")

Attack(sessions) ==
    /\ Called
    /\ \E session \in sessions, id \in NameableIds : \E
          actorId \in NamedIds(id), targetId \in NamedIds(id), damage \in ToolDamages :
          Respond("attack",
                  HandleExecuteCombatAction(Sys, session, id,
                      [Args("attack", actorId, targetId) EXCEPT !.damage = damage], clock),
                  session, id, actorId, targetId)

HealAction(sessions) ==
    /\ Called
    /\ \E session \in sessions, id \in NameableIds : \E
          actorId \in NamedIds(id), targetId \in NamedIds(id), amount \in ToolHealAmounts :
          Respond("heal",
                  HandleExecuteCombatAction(Sys, session, id,
                      [Args("heal", actorId, targetId) EXCEPT !.amount = amount], clock),
                  session, id, actorId, targetId)

Move(sessions) ==
    /\ Called
    /\ \E session \in sessions, id \in NameableIds : \E
          actorId \in NamedIds(id), target \in NamedCells(id) :
          Respond("move",
                  HandleExecuteCombatAction(Sys, session, id,
                      [Args("move", actorId, "") EXCEPT !.targetPosition = target], clock),
                  session, id, actorId, "")

\* execute_combat_action called with action 'dash'
DashAction(sessions) ==
    /\ Called
    /\ \E session \in sessions, id \in NameableIds : \E actorId \in NamedIds(id) :
          Respond("dash",
                  HandleExecuteCombatAction(Sys, session, id,
                      Args("dash", actorId, ""), clock),
                  session, id, actorId, "")

DisengageAction(sessions) ==
    /\ Called
    /\ \E session \in sessions, id \in NameableIds : \E actorId \in NamedIds(id) :
          Respond("disengage",
                  HandleExecuteCombatAction(Sys, session, id,
                      Args("disengage", actorId, ""), clock),
                  session, id, actorId, "")

AdvanceTurn(sessions) ==
    /\ Called
    /\ \E session \in sessions, id \in NameableIds :
          Respond("advance", HandleAdvanceTurn(Sys, session, id, clock),
                  session, id, "", "")

EndEncounter(sessions) ==
    /\ Called
    /\ \E session \in sessions, id \in NameableIds :
          Respond("end", HandleEndEncounter(Sys, session, id), session, id, "", "")

Next ==
    \/ CreateEncounter(Callers, ToolParticipantLists, Terrains)
    \/ GetEncounterState(Callers)
    \/ Attack(Callers)
    \/ HealAction(Callers)
    \/ Move(Callers)
    \/ DisengageAction(Callers)
    \/ AdvanceTurn(Callers)
    \/ EndEncounter(Callers)
    \/ Tick

Spec == Init /\ [][Next]_vars

----------------------------------------------------------------------------
(* The two-session specification: the same handlers called under two        *)
(* session contexts on one encounter                                        *)

SessionParticipantLists == { <<Participant("goblin", 2, 2, NoPos)>> }

SessionsNext ==
    \/ CreateEncounter(Sessions, SessionParticipantLists, {[present |-> FALSE, obstacles |-> {}]})
    \/ GetEncounterState(Sessions)
    \/ Attack(Sessions)
    \/ HealAction(Sessions)
    \/ Move(Sessions)
    \/ DisengageAction(Sessions)
    \/ AdvanceTurn(Sessions)
    \/ EndEncounter(Sessions)
    \/ Tick

SpecSessions == Init /\ [][SessionsNext]_vars

----------------------------------------------------------------------------
(* The map patch DSL: parseDSL and parseLine of engine/dsl/parser.ts, the   *)
(* command schema and the patch engine, and the patch tools of the server   *)

MaxLines == 2          \* lines of a patch script
WorldW == 2            \* width and height of the generated world
WorldH == 1

\* a token of a line as the regular expression of parseLine cuts it: key=value
\* (the value quoted or not) or a bare word
Arg(key, quoted, text) ==
    [key |-> key, eq |-> TRUE, quoted |-> quoted, text |-> text]
Word(text) == [key |-> text, eq |-> FALSE, quoted |-> FALSE, text |-> ""]

\* a trimmed line: whether it starts with '#', and its tokens
Line(hash, tokens) == [hash |-> hash, tokens |-> tokens]

Lines ==
    { Line(FALSE, <<>>),
      Line(TRUE, <<Word("#"), Word("city")>>),
      Line(FALSE, <<Word("ADD_STRUCTURE"), Arg("type", TRUE, "city"),
                    Arg("x", FALSE, "1"), Arg("y", FALSE, "0"),
                    Arg("name", TRUE, "Patch City")>>),
      Line(FALSE, <<Word("ADD_STRUCTURE"), Arg("type", FALSE, "city"),
                    Arg("x", FALSE, "5"), Arg("y", FALSE, "0"),
                    Arg("name", FALSE, "Far")>>),
      Line(FALSE, <<Word("ADD_STRUCTURE"), Arg("type", FALSE, "city"),
                    Arg("x", FALSE, "1")>>),
      Line(FALSE, <<Word("ADD_STRUCTURE"), Arg("type", FALSE, "city"),
                    Arg("x", FALSE, "east"), Arg("y", FALSE, "0"),
                    Arg("name", FALSE, "Nan")>>),
      Line(FALSE, <<Word("ADD_STRUCTURE"), Word("city")>>),
      Line(FALSE, <<Word("SET_BIOME"), Arg("x", FALSE, "0"), Arg("y", FALSE, "0"),
                    Arg("biome", FALSE, "forest")>>),
      Line(FALSE, <<Word("INVALID_COMMAND"), Arg("x", FALSE, "5"),
                    Arg("y", FALSE, "5")>>) }

Scripts == UNION { [1..n -> Lines] : n \in 0..MaxLines }

\* z.coerce.number() on the text of an argument
NaN == -1
CoerceNumber(text) ==
    IF text = "0" THEN 0 ELSE IF text = "1" THEN 1 ELSE IF text = "5" THEN 5
    ELSE NaN

NoCommand == [command |-> "", type |-> "", x |-> NaN, y |-> NaN, name |-> "",
              biome |-> ""]

\* the text of args[key], "" if the key is absent
Text(args, key) == IF key \in DOMAIN args THEN args[key] ELSE ""

\* PatchCommandSchema.safeParse({command, args})
PatchCommandSchema(command, args) ==
    IF /\ command = "ADD_STRUCTURE"
       /\ {"type", "x", "y", "name"} \subseteq DOMAIN args
       /\ CoerceNumber(args["x"]) # NaN /\ CoerceNumber(args["y"]) # NaN
    THEN [success |-> TRUE,
          data |-> [NoCommand EXCEPT !.command = command, !.type = args["type"],
                        !.x = CoerceNumber(args["x"]), !.y = CoerceNumber(args["y"]),
                        !.name = args["name"]]]
    ELSE IF /\ command = "SET_BIOME"
            /\ {"x", "y", "biome"} \subseteq DOMAIN args
            /\ CoerceNumber(args["x"]) # NaN /\ CoerceNumber(args["y"]) # NaN
    THEN [success |-> TRUE,
          data |-> [NoCommand EXCEPT !.command = command,
                        !.x = CoerceNumber(args["x"]), !.y = CoerceNumber(args["y"]),
                        !.biome = args["biome"]]]
    ELSE [success |-> FALSE, data |-> NoCommand]

\* parseLine: the loop over tokens[1..]; a token without '=' throws, a quoted
\* value loses its quotes, a repeated key keeps its last value
RECURSIVE CollectArgs(_, _)
CollectArgs(tokens, args) ==
    IF tokens = <<>> THEN [ok |-> TRUE, args |-> args]
    ELSE IF ~Head(tokens).eq THEN [ok |-> FALSE, args |-> args]
    ELSE CollectArgs(Tail(tokens), (Head(tokens).key :> Head(tokens).text) @@ args)

\* parseLine: the collected arguments are validated against the schema
Validated(command, collected) ==
    IF ~collected.ok
    THEN [ok |-> FALSE, error |-> "Invalid argument format", command |-> NoCommand]
    ELSE IF ~PatchCommandSchema(command, collected.args).success
    THEN [ok |-> FALSE, error |-> "Invalid command arguments", command |-> NoCommand]
    ELSE [ok |-> TRUE, error |-> "",
          command |-> PatchCommandSchema(command, collected.args).data]

\* parseLine(line)
ParseLine(line) ==
    IF line.tokens = <<>>
    THEN [ok |-> FALSE, error |-> "Empty command", command |-> NoCommand]
    ELSE Validated(Head(line.tokens).key, CollectArgs(Tail(line.tokens), <<>>))

\* parseDSL skips the empty lines and the comments
Skipped(line) == line.tokens = <<>> \/ line.hash

\* parseDSL with a loop that drops a line that does not parse
RECURSIVE ParseDSL_drop(_, _, _)
ParseDSL_drop(lines, i, commands) ==
    IF i > Len(lines) THEN [ok |-> TRUE, line |-> 0, commands |-> commands]
    ELSE IF Skipped(lines[i]) \/ ~ParseLine(lines[i]).ok
    THEN ParseDSL_drop(lines, i + 1, commands)
    ELSE ParseDSL_drop(lines, i + 1, Append(commands, ParseLine(lines[i]).command))

\* parseDSL with a loop that puts each command in front of the list
RECURSIVE ParseDSL_front(_, _, _)
ParseDSL_front(lines, i, commands) ==
    IF i > Len(lines) THEN [ok |-> TRUE, line |-> 0, commands |-> commands]
    ELSE IF Skipped(lines[i]) THEN ParseDSL_front(lines, i + 1, commands)
    ELSE IF ~ParseLine(lines[i]).ok
    THEN [ok |-> FALSE, line |-> i, commands |-> <<>>]
    ELSE ParseDSL_front(lines, i + 1, <<ParseLine(lines[i]).command>> \o commands)

\* parseDSL with an error that counts the commands, not the lines
RECURSIVE ParseDSL_commandNumber(_, _, _)
ParseDSL_commandNumber(lines, i, commands) ==
    IF i > Len(lines) THEN [ok |-> TRUE, line |-> 0, commands |-> commands]
    ELSE IF Skipped(lines[i]) THEN ParseDSL_commandNumber(lines, i + 1, commands)
    ELSE IF ~ParseLine(lines[i]).ok
    THEN [ok |-> FALSE, line |-> Len(commands) + 1, commands |-> <<>>]
    ELSE ParseDSL_commandNumber(lines, i + 1,
                                Append(commands, ParseLine(lines[i]).command))

\* parseDSL(script): the loop from line i on, commands parsed so far; the
\* first line that does not parse throws with its line number
RECURSIVE ParseDSL(_, _, _)
ParseDSL(lines, i, commands) ==
    IF i > Len(lines) THEN [ok |-> TRUE, line |-> 0, commands |-> commands]
    ELSE IF Skipped(lines[i]) THEN ParseDSL(lines, i + 1, commands)
    ELSE IF ~ParseLine(lines[i]).ok
    THEN [ok |-> FALSE, line |-> i, commands |-> <<>>]
    ELSE ParseDSL(lines, i + 1, Append(commands, ParseLine(lines[i]).command))

\* the spatial bounds check of a command against the world
InBounds(w, c) == c.x \in 0..(w.width - 1) /\ c.y \in 0..(w.height - 1)

\* one command applied to the snapshot w
ApplyCommand(w, c) ==
    IF c.command = "ADD_STRUCTURE"
    THEN [w EXCEPT !.structures =
            Append(@, [type |-> c.type, x |-> c.x, y |-> c.y, name |-> c.name])]
    ELSE [w EXCEPT !.tiles[<<c.x, c.y>>] = c.biome]

\* applyPatch: the commands run in order on a snapshot of the world
RECURSIVE ApplyPatch(_, _)
ApplyPatch(w, commands) ==
    IF commands = <<>> THEN [ok |-> TRUE, world |-> w]
    ELSE IF ~InBounds(w, Head(commands)) THEN [ok |-> FALSE, world |-> w]
    ELSE ApplyPatch(ApplyCommand(w, Head(commands)), Tail(commands))

\* the outcome of a world tool
PatchResult(w, ok, error, commands) ==
    [world |-> w, ok |-> ok, error |-> error, commands |-> commands,
     willModify |-> commands # <<>>]

\* handleGenerateWorld: a world of width x height tiles and no structures
HandleGenerateWorld(width, height) ==
    PatchResult([present |-> TRUE, width |-> width, height |-> height,
                 tiles |-> [c \in (0..(width - 1)) \X (0..(height - 1)) |-> "ocean"],
                 structures |-> <<>>],
                TRUE, "", <<>>)

\* handleApplyMapPatch once the script is parsed and the patch has run on the
\* snapshot: the snapshot is written only if every command succeeded
CommitPatch(w, parsed, applied) ==
    IF ~applied.ok THEN PatchResult(w, FALSE, "Validation", parsed.commands)
    ELSE PatchResult(applied.world, TRUE, "", parsed.commands)

\* handleApplyMapPatch once the script is parsed
ApplyParsed(w, parsed) ==
    IF ~parsed.ok THEN PatchResult(w, FALSE, "Validation", <<>>)
    ELSE CommitPatch(w, parsed, ApplyPatch(w, parsed.commands))

\* handleApplyMapPatch(args)
HandleApplyMapPatch(w, script) ==
    IF ~w.present THEN PatchResult(w, FALSE, "No world has been generated", <<>>)
    ELSE ApplyParsed(w, ParseDSL(script, 1, <<>>))

\* handlePreviewMapPatch once the script is parsed
PreviewParsed(w, parsed) ==
    IF ~parsed.ok THEN PatchResult(w, FALSE, "Validation", <<>>)
    ELSE PatchResult(w, TRUE, "", parsed.commands)

\* handlePreviewMapPatch(args)
HandlePreviewMapPatch(w, script) ==
    IF ~w.present THEN PatchResult(w, FALSE, "No world has been generated", <<>>)
    ELSE PreviewParsed(w, ParseDSL(script, 1, <<>>))

----------------------------------------------------------------------------
(* The patch specification: the world tools called in any order *)

\* a call of a world tool
PatchCalled ==
    /\ ncalls < MaxCalls
    /\ ncalls' = ncalls + 1
    /\ UNCHANGED <<engine, twin, registry, store, characters, auditLog, replay,
                   clock, advances, magic, worlds, inflight, quests, bus>>

\* the outcome r of the world tool op called with script
PatchRespond(op, script, r) ==
    /\ world' = r.world
    /\ lastCall' = [op |-> op, ok |-> r.ok, error |-> r.error, script |-> script,
                    commands |-> r.commands, willModify |-> r.willModify]

GenerateWorld ==
    /\ PatchCalled
    /\ PatchRespond("generate", <<>>, HandleGenerateWorld(WorldW, WorldH))

ApplyMapPatch ==
    /\ PatchCalled
    /\ \E script \in Scripts :
          PatchRespond("apply", script, HandleApplyMapPatch(world, script))

PreviewMapPatch ==
    /\ PatchCalled
    /\ \E script \in Scripts :
          PatchRespond("preview", script, HandlePreviewMapPatch(world, script))

PatchNext ==
    \/ GenerateWorld
    \/ ApplyMapPatch
    \/ PreviewMapPatch

SpecPatch == Init /\ [][PatchNext]_vars

\* parseDSL called on a script: the commands, or the line of the error
CallParseDSL ==
    /\ PatchCalled
    /\ \E script \in Scripts :
          lastCall' = [op |-> "parseDSL", script |-> script,
                       ok |-> ParseDSL(script, 1, <<>>).ok,
                       error |-> IF ParseDSL(script, 1, <<>>).ok THEN "" ELSE "Error on line",
                       line |-> ParseDSL(script, 1, <<>>).line,
                       commands |-> ParseDSL(script, 1, <<>>).commands]
    /\ UNCHANGED world

ParseNext ==
    \/ CallParseDSL
    \/ Tick

SpecParse == Init /\ [][ParseNext]_vars

----------------------------------------------------------------------------
(* The condition specification: one CombatEngine whose participants are     *)
(* given conditions with ongoing effects of every kind                       *)

DieSides == 2          \* sides of the die of a dice effect

OngoingConditions ==
    { Condition("burning", "start_of_turn", Undefined, Undefined, "",
                <<Effect("start_of_turn", "damage", 1, Undefined)>>),
      Condition("blessed", "end_of_turn", Undefined, Undefined, "",
                <<Effect("end_of_turn", "healing", 1, Undefined)>>),
      Condition("bleeding", "rounds", 2, Undefined, "",
                <<Effect("end_of_turn", "damage", Undefined, DieSides)>>),
      Condition("regenerating", "rounds", 2, Undefined, "",
                <<Effect("start_of_turn", "healing", Undefined, DieSides)>>) }

ConditionsNext ==
    \/ EngStartEncounter(EngineParticipantLists)
    \/ EngExecuteAttack
    \/ EngApplyCondition(OngoingConditions)
    \/ EngNextTurn
    \/ Tick

SpecConditions == EngineInit /\ [][ConditionsNext]_vars

----------------------------------------------------------------------------
(* The turn specification: encounters of two and three participants whose   *)
(* turns are advanced while they hold conditions with ongoing effects       *)

TurnParticipantLists ==
    { <<Participant("hero", 2, 2, NoPos), Participant("goblin", 2, 2, NoPos)>>,
      <<Participant("hero", 2, 2, NoPos), Participant("goblin", 2, 2, NoPos),
        Participant("orc", 2, 2, NoPos)>>,
      <<Participant("hero", 2, 2, NoPos), Participant("goblin", 2, 2, NoPos),
        Participant("goblin", 2, 2, NoPos)>> }

TurnsNext ==
    \/ EngStartEncounter(TurnParticipantLists)
    \/ EngApplyCondition(OngoingConditions)
    \/ EngNextTurn
    \/ Tick

SpecTurns == EngineInit /\ [][TurnsNext]_vars

----------------------------------------------------------------------------
(* The expiry specification: turns are advanced for ever on one engine      *)
(* whose participants hold conditions of the timed duration types           *)

MaxRound == 3          \* the round counter is followed up to this value

TimedDurations == {"rounds", "start_of_turn", "end_of_turn"}

\* conditions as applyCondition takes them; duration is optional
TimedConditions ==
    { Condition("dazed", "start_of_turn", Undefined, Undefined, "", <<>>),
      Condition("blessed", "end_of_turn", Undefined, Undefined, "",
                <<Effect("end_of_turn", "healing", 1, Undefined)>>),
      Condition("slowed", "rounds", 2, Undefined, "", <<>>),
      Condition("cursed", "rounds", Undefined, Undefined, "", <<>>) }

\* a condition a participant brings into the encounter, under its own id
Preset(pid, rnd) ==
    [Condition("slowed", "rounds", 2, Undefined, "", <<>>)
        EXCEPT !.id = [pid |-> pid, type |-> "slowed", now |-> 0, rnd |-> rnd]]

PresetRandoms == {3, 4}

\* the participants startEncounter is given: conditions are kept as passed
ExpiryParticipantLists ==
    { <<Participant("hero", 2, 2, NoPos), Participant("goblin", 2, 2, NoPos)>>,
      <<[Participant("hero", 2, 2, NoPos) EXCEPT !.conditions = <<Preset("hero", 3)>>]>>,
      <<[Participant("goblin", 2, 2, NoPos) EXCEPT !.conditions = <<Preset("goblin", 3)>>],
        [Participant("goblin", 2, 2, NoPos) EXCEPT !.conditions = <<Preset("goblin", 4)>>]>> }

\* the round counter, which no turn processing reads, stops at MaxRound
FollowedRound(eng) == [eng EXCEPT !.state.round = Min(@, MaxRound)]

\* nextTurnWithConditions() called again and again; advances alternates
\* between 0 and 1 from one advance to the next
KeepAdvancing ==
    /\ engine.state.active
    /\ engine' = FollowedRound(NextTurnWithConditions(engine))
    /\ advances' = 1 - advances
    /\ lastCall' = CallOf("advanceTurn", TRUE, "", "", "")
    /\ UNCHANGED <<clock, twin, ncalls>>
    /\ EngineFrame

ExpiryNext ==
    \/ EngStartEncounter(ExpiryParticipantLists)
    \/ EngApplyCondition(TimedConditions)
    \/ KeepAdvancing

\* a step that advances the turn: of the steps of ExpiryNext only
\* KeepAdvancing flips advances, and it can be taken whenever an encounter
\* is active
TurnAdvanced ==
    /\ engine.state.active
    /\ advances' = 1 - advances

\* turns keep being advanced: the advance is enabled whenever an encounter
\* is active and is taken again and again
SpecExpiry == EngineInit /\ [][ExpiryNext]_vars /\ WF_advances(TurnAdvanced)

----------------------------------------------------------------------------
(* The movement specification: the handlers called on encounters whose      *)
(* participants stand next to each other on the grid                        *)

\* a participant passed with a movementSpeed of its own, in feet
WithSpeed(p, speed) == [movementSpeed |-> speed] @@ p

MoveParticipantLists ==
    { <<WithSpeed(Participant("hero", 1, 2, [x |-> 1, y |-> 0]), 40),
        Participant("goblin", 2, 2, [x |-> 0, y |-> 0])>>,
      <<WithSpeed(Participant("hero", 2, 2, [x |-> 1, y |-> 0]), 40),
        Participant("goblin", 2, 2, [x |-> 0, y |-> 0])>> }

MovesNext ==
    \/ CreateEncounter(Callers, MoveParticipantLists, Terrains)
    \/ Move(Callers)
    \/ DashAction(Callers)
    \/ DisengageAction(Callers)
    \/ AdvanceTurn(Callers)
    \/ Tick

SpecMoves == Init /\ [][MovesNext]_vars

----------------------------------------------------------------------------
(* The damage-type specification: attacks that name a damageType on targets *)
(* created with resistances, vulnerabilities or immunities                  *)

\* the damage and the damageType of the typed attacks
FireDamage == 3
FireType == "fire"

\* a participant passed with damage modifiers
WithModifiers(p, resistances, vulnerabilities, immunities) ==
    [resistances |-> resistances, vulnerabilities |-> vulnerabilities,
     immunities |-> immunities] @@ p

DamageParticipantLists ==
    { <<Participant("hero", 4, 4, NoPos),
        WithModifiers(Participant("goblin", 4, 4, NoPos), {}, {}, {FireType})>>,
      <<Participant("hero", 4, 4, NoPos),
        WithModifiers(Participant("goblin", 4, 4, NoPos), {}, {FireType}, {})>>,
      <<Participant("hero", 4, 4, NoPos),
        WithModifiers(Participant("goblin", 4, 4, NoPos), {FireType}, {}, {})>> }

\* execute_combat_action with action 'attack' and a damageType
TypedAttack(sessions) ==
    /\ Called
    /\ \E session \in sessions, id \in NameableIds : \E
          actorId \in NamedIds(id), targetId \in NamedIds(id) :
          Respond("attack",
                  HandleExecuteCombatAction(Sys, session, id,
                      [damageType |-> FireType]
                        @@ [Args("attack", actorId, targetId) EXCEPT !.damage = FireDamage],
                      clock),
                  session, id, actorId, targetId)

DamageNext ==
    \/ CreateEncounter(Callers, DamageParticipantLists,
                       {[present |-> FALSE, obstacles |-> {}]})
    \/ TypedAttack(Callers)
    \/ AdvanceTurn(Callers)
    \/ Tick

SpecDamage == Init /\ [][DamageNext]_vars

----------------------------------------------------------------------------
(* The initiative specification: encounters started with participants whose *)
(* initiative bonuses make the rolled initiatives tie                       *)

MaxParticipants == 3   \* participants of one encounter

\* the stream gives consecutive d20s that differ by 7: a bonus of 7 on
\* the earlier participant ties it with the next one
InitiativeBonuses == {0, 7}

InitiativeParticipants ==
    { [Participant(id, 2, 2, NoPos) EXCEPT !.initiativeBonus = b] :
        id \in Ids, b \in InitiativeBonuses }

InitiativeLists ==
    UNION { [1..n -> InitiativeParticipants] : n \in 1..MaxParticipants }

InitiativeNext ==
    \/ EngStartEncounter(InitiativeLists)
    \/ EngNextTurn
    \/ Tick

SpecInitiative == EngineInit /\ [][InitiativeNext]_vars

----------------------------------------------------------------------------
(* The check specification: makeCheck called on an engine whose stream is   *)
(* at any position, so that every natural roll 1..20 comes up               *)

CheckModifiers == {-15, 0, 5, 30}
CheckDCs == {10, 15}

\* the dice already drawn from the engine's stream
StreamPositions == 0..19

\* makeCheck with the modifier and the DC passed on in the wrong order
MakeCheck_swapped(eng, modifier, dc) ==
    [degree |-> CheckDegree(eng.rng, dc, modifier),
     eng |-> [eng EXCEPT !.rng = Advance(@)]]

\* makeCheck(modifier, dc): the degree rng.checkDegree returns, one die drawn
MakeCheck(eng, modifier, dc) ==
    [degree |-> CheckDegree(eng.rng, modifier, dc),
     eng |-> [eng EXCEPT !.rng = Advance(@)]]

CheckInit ==
    /\ engine \in {[NewEngine(SeedOf(s)) EXCEPT !.rng.n = n] :
                       s \in Seeds, n \in StreamPositions}
    /\ twin = engine
    /\ registry = <<>>
    /\ store = <<>>
    /\ characters = <<>>
    /\ auditLog = <<>>
    /\ replay = NoReplay(<<>>)
    /\ clock = 0
    /\ ncalls = 0
    /\ advances = 0
    /\ lastCall = NoCall
    /\ world = NoWorld
    /\ magic = NoMagic
    /\ bus = NoBus
    /\ worlds = NoWorlds
    /\ inflight = NoCalls
    /\ quests = NoQuests

EngMakeCheck ==
    /\ ncalls < MaxCalls
    /\ \E modifier \in CheckModifiers, dc \in CheckDCs :
          /\ engine' = MakeCheck(engine, modifier, dc).eng
          /\ lastCall' = [op |-> "makeCheck", ok |-> TRUE, error |-> "",
                          modifier |-> modifier, dc |-> dc,
                          degree |-> MakeCheck(engine, modifier, dc).degree]
    /\ ncalls' = ncalls + 1
    /\ UNCHANGED <<clock, advances, twin>>
    /\ EngineFrame

CheckNext ==
    \/ EngMakeCheck
    \/ Tick

SpecCheck == CheckInit /\ [][CheckNext]_vars

----------------------------------------------------------------------------
(* Several encounters of one server: create_encounter called again while    *)
(* earlier encounters are registered and stored                             *)

MaxCreated == 2

CreateParticipantLists ==
    { <<Participant("hero", 2, 2, NoPos), Participant("goblin", 2, 2, NoPos)>>,
      <<Participant("goblin", 2, 2, NoPos)>> }

\* create_encounter, also while other encounters exist
CreateNextEncounter(sessions, lists) ==
    /\ Called
    /\ Cardinality(DOMAIN store) < MaxCreated
    /\ \E session \in sessions, seed \in Seeds, parts \in lists :
          RespondCreated(HandleCreateEncounter(Sys, session, seed, parts,
                                               [present |-> FALSE, obstacles |-> {}],
                                               clock),
                         session)

CreateNext ==
    \/ CreateNextEncounter(Callers, CreateParticipantLists)
    \/ Attack(Callers)
    \/ AdvanceTurn(Callers)
    \/ Tick

SpecCreate == Init /\ [][CreateNext]_vars

----------------------------------------------------------------------------
(* world_manage generate: the schema of the action, the generator, and the  *)
(* two places a generated world is kept in                                  *)

MinSide == 10
MaxSide == 1000
MinLandTenths == 1      \* landRatio 0.1, in tenths
MaxLandTenths == 9      \* landRatio 0.9, in tenths
DefaultLandTenths == 3  \* landRatio 0.3, in tenths

\* landRatio, an optional number, in tenths
Ratio(tenths) == [given |-> TRUE, tenths |-> tenths]
NoRatio == [given |-> FALSE, tenths |-> 0]

WorldWidths == {-1, 0, 1, 10}
WorldHeights == {0, 10}
LandRatios == {NoRatio} \cup {Ratio(t) : t \in {-5, 0, 1, 9, 10, 15}}

\* GenerateSchema.safeParse(args)
GenerateSchema(args) ==
    /\ args.width \in MinSide..MaxSide
    /\ args.height \in MinSide..MaxSide
    /\ args.landRatio.given => args.landRatio.tenths \in MinLandTenths..MaxLandTenths

\* normalizeHeightmap: heightmap[0] of an empty map throws; the sea level is
\* the elevation at the (1 - landRatio) percentile, undefined when that
\* index is outside the sorted elevations, and then every cell is NaN
NormalizeHeightmap(rows, cols, tenths) ==
    IF rows < 1 THEN [thrown |-> TRUE, rows |-> 0, cols |-> 0, nan |-> FALSE]
    ELSE [thrown |-> FALSE, rows |-> rows, cols |-> cols,
          nan |-> /\ rows * cols > 0
                  /\ (((10 - tenths) * rows * cols) \div 10) \notin 0..(rows * cols - 1)]

\* generateHeightmap: no check of its own; Array.from({length}) of a length
\* below 1 is empty
GenerateHeightmap(width, height, landRatio) ==
    NormalizeHeightmap(IF height < 0 THEN 0 ELSE height,
                       IF width < 0 THEN 0 ELSE width,
                       IF landRatio.given THEN landRatio.tenths ELSE DefaultLandTenths)

WorldIdOf(seed, now) == [tag |-> "world", seed |-> seed, now |-> now]

WorldResult(w, ok, error) == [worlds |-> w, ok |-> ok, error |-> error]

\* handleGenerate(args): the world is generated, then written to the
\* repository and to the WorldManager
HandleGenerate(w, seed, args, now) ==
    IF GenerateHeightmap(args.width, args.height, args.landRatio).thrown
    THEN WorldResult(w, FALSE, "TypeError")
    ELSE WorldResult([store |-> w.store \cup {WorldIdOf(seed, now)},
                      manager |-> w.manager \cup {WorldIdOf(seed, now)}],
                     TRUE, "")

\* the generate action reached without the schema of the action
RouteGenerate_unchecked(w, seed, args, now) == HandleGenerate(w, seed, args, now)

\* the router of world_manage on action generate: the arguments are parsed
\* with the schema of the action, then handed to its handler
RouteGenerate(w, seed, args, now) ==
    IF ~GenerateSchema(args) THEN WorldResult(w, FALSE, "Validation")
    ELSE HandleGenerate(w, seed, args, now)

WorldManageGenerate ==
    /\ ncalls < MaxCalls
    /\ \E seed \in Seeds, width \in WorldWidths, height \in WorldHeights,
          landRatio \in LandRatios :
          /\ worlds' = RouteGenerate(worlds, seed, [width |-> width, height |-> height,
                                                    landRatio |-> landRatio], clock).worlds
          /\ lastCall' = [op |-> "generate", seed |-> seed, width |-> width,
                          height |-> height, landRatio |-> landRatio,
                          ok |-> RouteGenerate(worlds, seed,
                                               [width |-> width, height |-> height,
                                                landRatio |-> landRatio], clock).ok,
                          error |-> RouteGenerate(worlds, seed,
                                                  [width |-> width, height |-> height,
                                                   landRatio |-> landRatio], clock).error]
    /\ ncalls' = ncalls + 1
    /\ UNCHANGED <<engine, twin, registry, store, characters, auditLog, replay,
                   clock, advances, world, magic, bus, inflight, quests>>

WorldsNext ==
    \/ WorldManageGenerate
    \/ Tick

SpecWorlds == Init /\ [][WorldsNext]_vars

----------------------------------------------------------------------------
(* Biome assignment: the temperature bands and the cell loop of             *)
(* generateBiomeMap                                                         *)

SEA_LEVEL == 20

\* the bands in the order of the table; lower and upper say whether min and
\* max are finite
TEMP_BANDS ==
    << [lower |-> TRUE, min |-> 19, upper |-> FALSE, max |-> 0, index |-> 0],
       [lower |-> TRUE, min |-> 10, upper |-> TRUE, max |-> 19, index |-> 1],
       [lower |-> TRUE, min |-> 0, upper |-> TRUE, max |-> 10, index |-> 2],
       [lower |-> TRUE, min |-> -10, upper |-> TRUE, max |-> 0, index |-> 3],
       [lower |-> FALSE, min |-> 0, upper |-> TRUE, max |-> -10, index |-> 4] >>

\* the rows of BIOME_MATRIX, by band index + 1
BandNames == <<"Hot", "Warm", "Temperate", "Cool", "Cold">>

\* the band test with the bounds the other way round
InBand_upperInclusive(temperature, band) ==
    /\ band.lower => temperature > band.min
    /\ band.upper => temperature <= band.max

\* temperature >= band.min && temperature < band.max
InBand(temperature, band) ==
    /\ band.lower => temperature >= band.min
    /\ band.upper => temperature < band.max

\* getTempBand from the k-th band on; the fallback is the temperate band
RECURSIVE GetTempBandFrom(_, _)
GetTempBandFrom(temperature, k) ==
    IF k > Len(TEMP_BANDS) THEN 2
    ELSE IF InBand(temperature, TEMP_BANDS[k]) THEN TEMP_BANDS[k].index
    ELSE GetTempBandFrom(temperature, k + 1)

GetTempBand(temperature) == GetTempBandFrom(temperature, 1)

\* getMoistureLevel: floor(moisture / 100 * 26), kept within 0..25
GetMoistureLevel(moisture) ==
    Min(25, Max(0, (moisture * 26) \div 100))

\* the body of the cell loop; a land biome is named by its row and column
\* of BIOME_MATRIX
BiomeOfCell(elevation, temperature, moisture) ==
    IF elevation < SEA_LEVEL THEN [band |-> "Ocean", level |-> 0]
    ELSE [band |-> BandNames[GetTempBand(temperature) + 1],
          level |-> GetMoistureLevel(moisture)]

CellElevations == {19, 20}
CellTemperatures == -12..21
CellMoistures == {0, 50, 100}

AssignBiome ==
    /\ ncalls < MaxCalls
    /\ \E elevation \in CellElevations, temperature \in CellTemperatures,
          moisture \in CellMoistures :
          lastCall' = [op |-> "biome", ok |-> TRUE, error |-> "",
                       elevation |-> elevation, temperature |-> temperature,
                       moisture |-> moisture,
                       biome |-> BiomeOfCell(elevation, temperature, moisture)]
    /\ ncalls' = ncalls + 1
    /\ UNCHANGED <<engine, twin, registry, store, characters, auditLog, replay,
                   clock, advances, world, magic, bus, worlds, inflight, quests>>

BiomeNext ==
    \/ AssignBiome
    \/ Tick

SpecBiome == Init /\ [][BiomeNext]_vars

----------------------------------------------------------------------------
(* The consolidated tools world_map and spatial_manage: the context holder  *)
(* of each module and calls that overlap at an await                        *)

ConsolidatedTools == {"world_map", "spatial_manage"}

\* currentContext = ctx only while no call holds the context
EnterContext_keepFirst(holder, tool, ctx) ==
    IF holder[tool] = "null" THEN [holder EXCEPT ![tool] = ctx] ELSE holder

\* currentContext = ctx, the first statement of handleWorldMap and of
\* handleSpatialManage
EnterContext(holder, tool, ctx) == [holder EXCEPT ![tool] = ctx]

\* the finally block: currentContext = null
LeaveContext(holder, tool) == [holder EXCEPT ![tool] = "null"]

\* an action handler (handleOverview, handleLook, ...): it throws without a
\* context, else passes the context it reads to the tool's handler
HandleAction(holder, tool) ==
    IF holder[tool] = "null" THEN [seen |-> "null", error |-> "No session context"]
    ELSE [seen |-> holder[tool], error |-> ""]

\* router(args): the action handler is called in the run that called the
\* router, before control returns to the event loop
Router(holder, tool) == HandleAction(holder, tool)

\* a call up to its first await: the context is set, the router has called
\* the action handler, and the handler waits for the tool's handler
StartedCall(holder, tool, ctx, overlapped) ==
    [tool |-> tool, ctx |-> ctx, pc |-> "awaiting",
     seen |-> Router(holder, tool).seen, error |-> Router(holder, tool).error,
     overlapped |-> overlapped]

Awaiting(tool) ==
    {k \in 1..Len(inflight.calls) :
        inflight.calls[k].tool = tool /\ inflight.calls[k].pc = "awaiting"}

ContextFrame ==
    UNCHANGED <<engine, twin, registry, store, characters, auditLog, replay,
                clock, advances, world, magic, bus, worlds, quests>>

BeginCall ==
    /\ ncalls < MaxCalls
    /\ \E tool \in ConsolidatedTools, ctx \in Sessions :
          /\ inflight' =
                [currentContext |-> EnterContext(inflight.currentContext, tool, ctx),
                 calls |-> Append(inflight.calls,
                                  StartedCall(EnterContext(inflight.currentContext, tool, ctx),
                                              tool, ctx,
                                              \E k \in Awaiting(tool) :
                                                  inflight.calls[k].ctx # ctx))]
          /\ lastCall' = [op |-> tool, ok |-> TRUE, error |-> "", session |-> ctx,
                          step |-> "begin"]
    /\ ncalls' = ncalls + 1
    /\ ContextFrame

\* the await of a call is over: the response is built and the finally block
\* clears the holder
FinishCall ==
    /\ \E k \in 1..Len(inflight.calls) :
          /\ inflight.calls[k].pc = "awaiting"
          /\ inflight' =
                [currentContext |-> LeaveContext(inflight.currentContext,
                                                 inflight.calls[k].tool),
                 calls |-> [inflight.calls EXCEPT ![k].pc = "done"]]
          /\ lastCall' = [op |-> inflight.calls[k].tool,
                          ok |-> inflight.calls[k].error = "",
                          error |-> inflight.calls[k].error,
                          session |-> inflight.calls[k].ctx, step |-> "finish"]
    /\ UNCHANGED ncalls
    /\ ContextFrame

ContextNext ==
    \/ BeginCall
    \/ FinishCall
    \/ Tick

SpecContext == Init /\ [][ContextNext]_vars

----------------------------------------------------------------------------
(* quest_manage: quests with objectives, the quest log of each character    *)
(* (QuestRepository), and the handlers of the actions. assigned and done    *)
(* record what happened: who was assigned which quest with its              *)
(* prerequisites completed, and which objectives were completed while the   *)
(* quest was active for whom                                                *)

MaxQuests == 2         \* quests created
MaxQuestCalls == 6     \* calls of quest_manage

QuestCharacters == {"hero", "nobody"}
ObjectiveIds == {"o1", "o2"}

\* objectives as create takes them: completed defaults to false and may be
\* passed as true
ObjectiveLists ==
    { [o1 |-> FALSE], [o1 |-> TRUE], [o1 |-> FALSE, o2 |-> FALSE] }

InSeq(x, seq) == \E k \in 1..Len(seq) : seq[k] = x

\* questRepo.getLog(characterId), or the empty log the handler starts from
LogOf(q, characterId) ==
    IF characterId \in DOMAIN q.logs THEN q.logs[characterId]
    ELSE [activeQuests |-> <<>>, completedQuests |-> <<>>]

\* questRepo.updateLog(log)
UpdateLog(q, characterId, log) ==
    [q EXCEPT !.logs = [c \in DOMAIN q.logs \cup {characterId} |->
                            IF c = characterId THEN log ELSE q.logs[c]]]

QuestResult(q, ok, error) == [quests |-> q, ok |-> ok, error |-> error]

\* handleCreate(args): the quest gets a fresh id (randomUUID)
HandleCreate(q, objectives, prerequisites) ==
    QuestResult(
        [q EXCEPT !.quests =
            [id \in DOMAIN q.quests \cup {Cardinality(DOMAIN q.quests) + 1} |->
                IF id \in DOMAIN q.quests THEN q.quests[id]
                ELSE [objectives |-> objectives, prerequisites |-> prerequisites,
                      status |-> "available"]]],
        TRUE, "")

\* every prerequisite of the quest is in the completed quests of the log
PrerequisitesCompleted(q, questId, log) ==
    \A p \in q.quests[questId].prerequisites : InSeq(p, log.completedQuests)

\* handleAssign(args)
HandleAssign(q, chars, characterId, questId) ==
    IF ~CharFind(chars, characterId) THEN QuestResult(q, FALSE, "Character not found")
    ELSE IF questId \notin DOMAIN q.quests THEN QuestResult(q, FALSE, "Quest not found")
    ELSE IF InSeq(questId, LogOf(q, characterId).activeQuests)
    THEN QuestResult(q, FALSE, "Quest already active for this character")
    ELSE IF InSeq(questId, LogOf(q, characterId).completedQuests)
    THEN QuestResult(q, FALSE, "Quest already completed by this character")
    ELSE IF ~PrerequisitesCompleted(q, questId, LogOf(q, characterId))
    THEN QuestResult(q, FALSE, "Prerequisite quest not completed")
    ELSE QuestResult(
            UpdateLog(q, characterId,
                      [LogOf(q, characterId) EXCEPT !.activeQuests = Append(@, questId)]),
            TRUE, "")

\* questRepo.updateObjectiveProgress and questRepo.completeObjective, for
\* objectives that require one unit of progress: the objective is completed
CompleteObjectiveOf(q, questId, objectiveId) ==
    [q EXCEPT !.quests[questId].objectives[objectiveId] = TRUE]

\* handleUpdateObjective(args)
HandleUpdateObjective(q, chars, characterId, questId, objectiveId) ==
    IF ~CharFind(chars, characterId) THEN QuestResult(q, FALSE, "Character not found")
    ELSE IF ~InSeq(questId, LogOf(q, characterId).activeQuests)
    THEN QuestResult(q, FALSE, "Quest is not active for this character")
    ELSE IF questId \notin DOMAIN q.quests THEN QuestResult(q, FALSE, "Quest not found")
    ELSE IF objectiveId \notin DOMAIN q.quests[questId].objectives
    THEN QuestResult(q, FALSE, "Objective not found in quest")
    ELSE QuestResult(CompleteObjectiveOf(q, questId, objectiveId), TRUE, "")

\* handleCompleteObjective(args): the arguments name no character
HandleCompleteObjective(q, questId, objectiveId) ==
    IF questId \notin DOMAIN q.quests THEN QuestResult(q, FALSE, "Quest not found")
    ELSE IF objectiveId \notin DOMAIN q.quests[questId].objectives
    THEN QuestResult(q, FALSE, "Objective not found")
    ELSE QuestResult(CompleteObjectiveOf(q, questId, objectiveId), TRUE, "")

\* log.activeQuests.filter(id => id !== questId)
WithoutQuest(seq, questId) ==
    LET Other(id) == id # questId IN SelectSeq(seq, Other)

\* handleComplete(args)
HandleComplete(q, chars, characterId, questId) ==
    IF ~CharFind(chars, characterId) THEN QuestResult(q, FALSE, "Character not found")
    ELSE IF questId \notin DOMAIN q.quests THEN QuestResult(q, FALSE, "Quest not found")
    ELSE IF ~InSeq(questId, LogOf(q, characterId).activeQuests)
    THEN QuestResult(q, FALSE, "Quest is not active for this character")
    ELSE IF \E o \in DOMAIN q.quests[questId].objectives :
                ~q.quests[questId].objectives[o]
    THEN QuestResult(q, FALSE, "Not all objectives completed")
    ELSE QuestResult(
            [UpdateLog(q, characterId,
                       [activeQuests |->
                            WithoutQuest(LogOf(q, characterId).activeQuests, questId),
                        completedQuests |->
                            Append(LogOf(q, characterId).completedQuests, questId)])
                EXCEPT !.quests[questId].status = "completed"],
            TRUE, "")

\* the characters for which the quest is active
ActiveFor(q, questId) ==
    {c \in DOMAIN q.logs : InSeq(questId, q.logs[c].activeQuests)}

\* the objectives a call has completed, each with every character for which
\* the quest was active at that moment
NewlyDone(before, after) ==
    {<<c, id, o>> \in QuestCharacters \X (1..MaxQuests) \X ObjectiveIds :
        /\ id \in DOMAIN before.quests
        /\ o \in DOMAIN before.quests[id].objectives
        /\ ~before.quests[id].objectives[o]
        /\ after.quests[id].objectives[o]
        /\ c \in ActiveFor(before, id)}

\* the assignments a call has made, each with whether the prerequisites of
\* the quest were completed by the character at that moment
NewlyAssigned(before, after) ==
    {<<c, id, PrerequisitesCompleted(before, id, LogOf(before, c))>> :
        <<c, id>> \in {<<c, id>> \in QuestCharacters \X DOMAIN before.quests :
                        /\ c \in ActiveFor(after, id)
                        /\ c \notin ActiveFor(before, id)}}

QuestFrame ==
    UNCHANGED <<engine, twin, registry, store, characters, auditLog, replay,
                clock, advances, world, magic, bus, worlds, inflight>>

\* the outcome r of a call is stored and returned
QuestRespond(op, r) ==
    /\ quests' = [r.quests EXCEPT !.assigned = @ \cup NewlyAssigned(quests, r.quests),
                                  !.done = @ \cup NewlyDone(quests, r.quests)]
    /\ lastCall' = [op |-> op, ok |-> r.ok, error |-> r.error]
    /\ ncalls' = ncalls + 1
    /\ QuestFrame

QuestCreate ==
    /\ ncalls < MaxQuestCalls
    /\ Cardinality(DOMAIN quests.quests) < MaxQuests
    /\ \E objectives \in ObjectiveLists,
          prerequisites \in {{}} \cup {{p} : p \in DOMAIN quests.quests} :
          QuestRespond("quest_create", HandleCreate(quests, objectives, prerequisites))

QuestAssign ==
    /\ ncalls < MaxQuestCalls
    /\ \E c \in QuestCharacters, id \in 1..MaxQuests :
           QuestRespond("quest_assign", HandleAssign(quests, characters, c, id))

QuestUpdateObjective ==
    /\ ncalls < MaxQuestCalls
    /\ \E c \in QuestCharacters, id \in 1..MaxQuests, o \in ObjectiveIds :
           QuestRespond("quest_update_objective",
                        HandleUpdateObjective(quests, characters, c, id, o))

QuestCompleteObjective ==
    /\ ncalls < MaxQuestCalls
    /\ \E id \in 1..MaxQuests, o \in ObjectiveIds :
           QuestRespond("quest_complete_objective", HandleCompleteObjective(quests, id, o))

QuestComplete ==
    /\ ncalls < MaxQuestCalls
    /\ \E c \in QuestCharacters, id \in 1..MaxQuests :
           QuestRespond("quest_complete", HandleComplete(quests, characters, c, id))

QuestsNext ==
    \/ QuestCreate
    \/ QuestAssign
    \/ QuestUpdateObjective
    \/ QuestCompleteObjective
    \/ QuestComplete

SpecQuests == Init /\ [][QuestsNext]_vars

----------------------------------------------------------------------------
(* Auras and concentration: the aura_manage handlers over the aura and the  *)
(* concentration repositories                                               *)

SpellNames == {"bless", "hex"}
AuraOwners == {"hero", "ghost"}

\* endAura(auraId, auraRepo)
EndAura(m, auraId) ==
    LET Other(a) == a.id # auraId
    IN [m EXCEPT !.auras = SelectSeq(@, Other)]

\* endAurasByOwner(characterId, auraRepo)
EndAurasByOwner(m, characterId) ==
    LET Other(a) == a.ownerId # characterId
    IN [m EXCEPT !.auras = SelectSeq(@, Other)]

\* breakConcentration({characterId}): the concentration row is deleted and
\* the auras owned by (characterId, activeSpell) are removed
BreakConcentration(m, characterId) ==
    IF characterId \notin DOMAIN m.concentration THEN m
    ELSE LET Other(a) == ~(a.ownerId = characterId
                            /\ a.spellName = m.concentration[characterId])
         IN [m EXCEPT !.auras = SelectSeq(@, Other),
                      !.concentration = [c \in DOMAIN @ \ {characterId} |-> @[c]]]

\* startConcentration(characterId, spellName, ...): a prior concentration is
\* broken, then the new one is recorded
StartConcentration(m, characterId, spellName) ==
    LET broken == BreakConcentration(m, characterId)
    IN [broken EXCEPT !.concentration =
            [c \in DOMAIN @ \cup {characterId} |->
                IF c = characterId THEN spellName ELSE @[c]]]

\* createAura(request, auraRepo): the aura is stored under a fresh id
CreateAura(m, auraId, ownerId, spellName, requiresConcentration) ==
    [m EXCEPT !.auras = Append(@, [id |-> auraId, ownerId |-> ownerId,
                                   spellName |-> spellName,
                                   requiresConcentration |-> requiresConcentration]),
              !.created = @ + 1]

\* auraRepo.findById(auraId): index of the aura, 0 if none
FindAura(m, auraId) ==
    IF \E k \in 1..Len(m.auras) : m.auras[k].id = auraId
    THEN CHOOSE k \in 1..Len(m.auras) : m.auras[k].id = auraId
    ELSE 0

\* handleCreate without the call of startConcentration
HandleAuraCreate_noStart(m, chars, auraId, ownerId, spellName, requiresConcentration) ==
    IF ~CharFind(chars, ownerId) THEN [magic |-> m, ok |-> FALSE, error |-> "NotFound"]
    ELSE [magic |-> CreateAura(m, auraId, ownerId, spellName, requiresConcentration),
          ok |-> TRUE, error |-> ""]

\* handleCreate(args) of aura_manage
HandleAuraCreate(m, chars, auraId, ownerId, spellName, requiresConcentration) ==
    IF ~CharFind(chars, ownerId) THEN [magic |-> m, ok |-> FALSE, error |-> "NotFound"]
    ELSE [magic |-> CreateAura(IF requiresConcentration
                               THEN StartConcentration(m, ownerId, spellName)
                               ELSE m,
                               auraId, ownerId, spellName, requiresConcentration),
          ok |-> TRUE, error |-> ""]

\* handleRemove: the aura is ended, and the owner's concentration broken if
\* it is on the aura's spell
RemoveFound(m, aura) ==
    IF /\ aura.requiresConcentration
       /\ aura.ownerId \in DOMAIN m.concentration
       /\ m.concentration[aura.ownerId] = aura.spellName
    THEN BreakConcentration(EndAura(m, aura.id), aura.ownerId)
    ELSE EndAura(m, aura.id)

\* handleRemove(args) of aura_manage
HandleAuraRemove(m, auraId) ==
    IF FindAura(m, auraId) = 0 THEN [magic |-> m, ok |-> FALSE, error |-> "NotFound"]
    ELSE [magic |-> RemoveFound(m, m.auras[FindAura(m, auraId)]),
          ok |-> TRUE, error |-> ""]

\* handleRemoveByOwner(args) of aura_manage
HandleAuraRemoveByOwner(m, characterId) ==
    [magic |-> EndAurasByOwner(m, characterId), ok |-> TRUE, error |-> ""]

\* a call of aura_manage: everything but the repositories is left alone
AuraCalled ==
    /\ ncalls < MaxCalls
    /\ ncalls' = ncalls + 1
    /\ UNCHANGED <<engine, twin, registry, store, characters, auditLog, replay,
                   clock, advances, world, bus, worlds, inflight, quests>>

AuraRespond(op, auraId, ownerId, requiresConcentration, r) ==
    /\ magic' = r.magic
    /\ lastCall' = [op |-> op, ok |-> r.ok, error |-> r.error,
                    auraId |-> auraId, ownerId |-> ownerId,
                    requiresConcentration |-> requiresConcentration]

\* the id of the next aura: ids are never reused
NextAuraId == magic.created + 1

AuraCreate ==
    /\ AuraCalled
    /\ \E ownerId \in AuraOwners, spellName \in SpellNames, conc \in BOOLEAN :
          AuraRespond("createAura", NextAuraId, ownerId, conc,
                      HandleAuraCreate(magic, characters, NextAuraId, ownerId,
                                       spellName, conc))

AuraRemove ==
    /\ AuraCalled
    /\ \E auraId \in 1..MaxCalls :
          AuraRespond("removeAura", auraId, "", FALSE, HandleAuraRemove(magic, auraId))

AuraRemoveByOwner ==
    /\ AuraCalled
    /\ \E characterId \in AuraOwners :
          AuraRespond("removeAurasByOwner", 0, characterId, FALSE,
                      HandleAuraRemoveByOwner(magic, characterId))

AurasNext ==
    \/ AuraCreate
    \/ AuraRemove
    \/ AuraRemoveByOwner
    \/ Tick

SpecAuras == Init /\ [][AurasNext]_vars

----------------------------------------------------------------------------
(* The event bus: subscribe_to_events, publish, and a CombatEngine built    *)
(* with an emitter                                                          *)

Topics == {"world", "combat"}

\* the topics argument of subscribe_to_events: one topic or more
TopicLists == { <<"combat">>, <<"world">>, <<"world", "combat">>, <<"combat", "combat">> }

MaxSubscribers == 3

\* pubsub.subscribe(topic, handler): the handler is appended to the list;
\* throws tells whether sending the notification to this client fails
Subscribe(b, topic, throws) ==
    [b EXCEPT !.subscribers = Append(@, [topic |-> topic, throws |-> throws])]

\* the handler of subscribe_to_events: one subscription per topic given
RECURSIVE SubscribeToEvents(_, _, _)
SubscribeToEvents(b, topics, throws) ==
    IF topics = <<>> THEN b
    ELSE SubscribeToEvents(Subscribe(b, Head(topics), throws), Tail(topics), throws)

\* one subscriber is called with the payload inside a try/catch
Invoke(b, k, topic, payload) ==
    [b EXCEPT !.delivered = Append(@, [sub |-> k, topic |-> topic,
                                       payload |-> payload,
                                       threw |-> b.subscribers[k].throws])]

\* the loop of publish over the subscribers from the k-th on
RECURSIVE Deliver(_, _, _, _)
Deliver(b, k, topic, payload) ==
    IF k > Len(b.subscribers) THEN [bus |-> b, error |-> ""]
    ELSE IF b.subscribers[k].topic = topic
    THEN Deliver(Invoke(b, k, topic, payload), k + 1, topic, payload)
    ELSE Deliver(b, k + 1, topic, payload)

\* the loop of publish without the try/catch around a subscriber
RECURSIVE Deliver_unguarded(_, _, _, _)
Deliver_unguarded(b, k, topic, payload) ==
    IF k > Len(b.subscribers) THEN [bus |-> b, error |-> ""]
    ELSE IF b.subscribers[k].topic = topic
    THEN IF b.subscribers[k].throws
         THEN [bus |-> Invoke(b, k, topic, payload), error |-> "Thrown"]
         ELSE Deliver_unguarded(Invoke(b, k, topic, payload), k + 1, topic, payload)
    ELSE Deliver_unguarded(b, k + 1, topic, payload)

Publish_unguarded(b, topic, payload) == Deliver_unguarded(b, 1, topic, payload)

\* publish(topic, payload)
Publish(b, topic, payload) == Deliver(b, 1, topic, payload)

\* the payloads of the combat topic, built from the engine's state at the
\* time of the publish call
EncounterStarted(eng) == [type |-> "encounter_started", state |-> eng.state]

ParticipantHp(eng, id) == eng.state.participants[Find(eng.state.participants, id)].hp

AttackExecuted_before(before, after, targetId, hit) ==
    [type |-> "attack_executed", hit |-> hit, targetHp |-> ParticipantHp(before, targetId)]

AttackExecuted(before, after, targetId, hit) ==
    [type |-> "attack_executed", hit |-> hit, targetHp |-> ParticipantHp(after, targetId)]

HealExecuted(after, targetId, amount) ==
    [type |-> "heal_executed", amount |-> amount, targetHp |-> ParticipantHp(after, targetId)]

TurnChanged(after) ==
    [type |-> "turn_changed", round |-> after.state.round,
     activeParticipantId |->
        IF GetCurrentParticipant(after) = 0 THEN ""
        ELSE after.state.participants[GetCurrentParticipant(after)].id]

EventParticipantLists ==
    { <<Participant("hero", 4, 4, NoPos), Participant("goblin", 4, 4, NoPos)>> }

EventDamages == {1}
EventHealAmounts == {1}
Pings == {[type |-> "ping"]}

\* an operation of an engine constructed with the emitter: the new state
\* is in place and the event has reached the subscribers when it returns
Emit(after, payload) ==
    /\ engine' = after
    /\ bus' = Publish(bus, "combat", payload).bus

EventFrame ==
    UNCHANGED <<twin, registry, store, characters, auditLog, replay, clock,
                world, magic, worlds, inflight, quests>>

EvSubscribe ==
    /\ ncalls < MaxCalls
    /\ \E topics \in TopicLists, throws \in BOOLEAN :
          /\ Len(bus.subscribers) + Len(topics) <= MaxSubscribers
          /\ bus' = SubscribeToEvents(bus, topics, throws)
          /\ lastCall' = [op |-> "subscribe", ok |-> TRUE, error |-> "",
                          topics |-> topics]
    /\ ncalls' = ncalls + 1
    /\ UNCHANGED <<engine, advances>>
    /\ EventFrame

EvPublish ==
    /\ ncalls < MaxCalls
    /\ \E topic \in Topics, payload \in Pings :
          /\ bus' = Publish(bus, topic, payload).bus
          /\ lastCall' = [op |-> "publish", ok |-> Publish(bus, topic, payload).error = "",
                          error |-> Publish(bus, topic, payload).error,
                          topic |-> topic, payload |-> payload]
    /\ ncalls' = ncalls + 1
    /\ UNCHANGED <<engine, advances>>
    /\ EventFrame

EvStartEncounter ==
    /\ ncalls < MaxCalls
    /\ ~engine.state.active
    /\ \E parts \in EventParticipantLists :
          Emit(StartEncounter(engine, parts),
               EncounterStarted(StartEncounter(engine, parts)))
    /\ ncalls' = ncalls + 1
    /\ advances' = 0
    /\ lastCall' = CallOf("startEncounter", TRUE, "", "", "")
    /\ EventFrame

AttackReturned(r, actorId, targetId) ==
    /\ IF r.ok THEN Emit(r.eng, AttackExecuted(engine, r.eng, targetId, r.hit))
               ELSE UNCHANGED <<engine, bus, worlds, inflight, quests>>
    /\ lastCall' = [CallOf("attack", r.ok, r.error, actorId, targetId)
                       EXCEPT !.hit = r.hit]

EvExecuteAttack ==
    /\ ncalls < MaxCalls
    /\ \E actorId \in Ids, targetId \in Ids, damage \in EventDamages :
          AttackReturned(ExecuteAttack(engine, actorId, targetId, AttackBonus,
                                       AttackDC, damage), actorId, targetId)
    /\ ncalls' = ncalls + 1
    /\ UNCHANGED advances
    /\ EventFrame

HealReturned(r, actorId, targetId) ==
    /\ IF r.ok THEN Emit(r.eng, HealExecuted(r.eng, targetId, r.healAmount))
               ELSE UNCHANGED <<engine, bus, worlds, inflight, quests>>
    /\ lastCall' = CallOf("heal", r.ok, r.error, actorId, targetId)

EvExecuteHeal ==
    /\ ncalls < MaxCalls
    /\ \E actorId \in Ids, targetId \in Ids, amount \in EventHealAmounts :
          HealReturned(ExecuteHeal(engine, actorId, targetId, amount),
                       actorId, targetId)
    /\ ncalls' = ncalls + 1
    /\ UNCHANGED advances
    /\ EventFrame

EvNextTurn ==
    /\ ncalls < MaxCalls
    /\ engine.state.active
    /\ Emit(NextTurnWithConditions(engine),
            TurnChanged(NextTurnWithConditions(engine)))
    /\ advances' = advances + 1
    /\ ncalls' = ncalls + 1
    /\ lastCall' = CallOf("advanceTurn", TRUE, "", "", "")
    /\ EventFrame

EventsNext ==
    \/ EvSubscribe
    \/ EvPublish
    \/ EvStartEncounter
    \/ EvExecuteAttack
    \/ EvExecuteHeal
    \/ EvNextTurn
    \/ Tick

SpecEvents == EngineInit /\ [][EventsNext]_vars

----------------------------------------------------------------------------
(* The twin specification: two CombatEngines built with the same seed and   *)
(* driven by the same calls; each reads Date.now() and Math.random() itself *)

ClockValues == 0..MaxClock

TwinFrame ==
    /\ ncalls' = ncalls + 1
    /\ UNCHANGED <<registry, store, characters, auditLog, replay, clock, advances,
                   world, magic, worlds, inflight, quests, bus>>

TwinParticipantLists ==
    { <<Participant("hero", 2, 2, NoPos)>>,
      <<Participant("hero", 2, 2, NoPos), Participant("goblin", 2, 2, NoPos)>> }

TwinStartEncounter ==
    /\ ncalls < MaxCalls
    /\ ~engine.state.active
    /\ \E parts \in TwinParticipantLists :
          /\ engine' = StartEncounter(engine, parts)
          /\ twin' = StartEncounter(twin, parts)
    /\ lastCall' = CallOf("startEncounter", TRUE, "", "", "")
    /\ TwinFrame

TwinExecuteAttack ==
    /\ ncalls < MaxCalls
    /\ \E actorId \in Ids, targetId \in Ids, damage \in Damages :
          LET r == ExecuteAttack(engine, actorId, targetId, AttackBonus, AttackDC, damage)
              r2 == ExecuteAttack(twin, actorId, targetId, AttackBonus, AttackDC, damage)
          IN /\ engine' = r.eng
             /\ twin' = r2.eng
             /\ lastCall' = [CallOf("attack", r.ok, r.error, actorId, targetId)
                                EXCEPT !.hit = r.hit]
    /\ TwinFrame

TwinApplyCondition ==
    /\ ncalls < MaxCalls
    /\ \E pid \in Ids, c \in ConditionInputs :
          \E rnd \in RandomValues, rnd2 \in RandomValues, now2 \in ClockValues :
          /\ ConditionCount(engine, pid) < MaxConditions
          /\ [pid |-> pid, type |-> c.type, now |-> clock, rnd |-> rnd]
                \notin ConditionIdsOf(engine)
          /\ [pid |-> pid, type |-> c.type, now |-> now2, rnd |-> rnd2]
                \notin ConditionIdsOf(twin)
          /\ LET r == ApplyCondition(engine, pid, c, clock, rnd)
                 r2 == ApplyCondition(twin, pid, c, now2, rnd2)
             IN /\ engine' = r.eng
                /\ twin' = r2.eng
                /\ lastCall' = CallOf("applyCondition", r.ok, r.error, "", pid)
    /\ TwinFrame

TwinNextTurn ==
    /\ ncalls < MaxCalls
    /\ engine.state.active
    /\ engine' = NextTurnWithConditions(engine)
    /\ twin' = NextTurnWithConditions(twin)
    /\ lastCall' = CallOf("advanceTurn", TRUE, "", "", "")
    /\ TwinFrame

TwinNext ==
    \/ TwinStartEncounter
    \/ TwinExecuteAttack
    \/ TwinApplyCondition
    \/ TwinNextTurn
    \/ Tick

SpecTwin == EngineInit /\ [][TwinNext]_vars

----------------------------------------------------------------------------
(* The replay specification: tool calls recorded by the audit wrapper, then *)
(* the log fed entry by entry to the same handlers from the startup state   *)

NoCreate == [seed |-> 0, participants |-> <<>>,
             terrain |-> [present |-> FALSE, obstacles |-> {}]]

\* an audit entry: the tool name and the arguments of the invocation
AuditEntry(tool, session, encounterId, args, create) ==
    [tool |-> tool, session |-> session, encounterId |-> encounterId,
     args |-> args, create |-> create]

\* the handler registered under entry.tool, applied to the entry's arguments
Dispatch(sys, entry, now) ==
    IF entry.tool = "create_encounter"
    THEN HandleCreateEncounter(sys, entry.session, entry.create.seed,
                               entry.create.participants, entry.create.terrain, now)
    ELSE IF entry.tool = "get_encounter_state"
    THEN HandleGetEncounterState(sys, entry.session, entry.encounterId)
    ELSE IF entry.tool = "execute_combat_action"
    THEN HandleExecuteCombatAction(sys, entry.session, entry.encounterId, entry.args, now)
    ELSE IF entry.tool = "advance_turn"
    THEN HandleAdvanceTurn(sys, entry.session, entry.encounterId, now)
    ELSE HandleEndEncounter(sys, entry.session, entry.encounterId)

\* auditLogger.wrapHandler(name, handler): record the invocation, dispatch it
WrapHandler(entry) ==
    /\ ncalls < MaxCalls
    /\ ~replay.on
    /\ IF entry.tool = "create_encounter"
       THEN RespondCreated(Dispatch(Sys, entry, clock), entry.session)
       ELSE Respond(entry.tool, Dispatch(Sys, entry, clock), entry.session,
                    entry.encounterId, entry.args.actorId, entry.args.targetId)
    /\ auditLog' = Append(auditLog, entry)
    /\ ncalls' = ncalls + 1
    /\ UNCHANGED <<engine, twin, replay, clock, advances, world, magic, worlds, inflight, quests, bus>>

ReplayParticipantLists ==
    { <<Participant("hero", 2, 2, [x |-> 1, y |-> 0]),
        Participant("goblin", 2, 2, [x |-> 0, y |-> 0])>>,
      <<Participant("goblin", 2, 2, NoPos)>> }

RecCreateEncounter ==
    /\ Cardinality(DOMAIN store) < MaxEncounters
    /\ \E session \in Callers, seed \in Seeds, parts \in ReplayParticipantLists :
          WrapHandler(AuditEntry("create_encounter", session, NoEncounter,
                                 Args("none", "", ""),
                                 [seed |-> seed, participants |-> parts,
                                  terrain |-> [present |-> FALSE, obstacles |-> {}]]))

RecGetEncounterState ==
    \E session \in Callers, id \in DOMAIN store :
        WrapHandler(AuditEntry("get_encounter_state", session, id,
                               Args("none", "", ""), NoCreate))

RecAttack ==
    \E session \in Callers, id \in DOMAIN store : \E
        actorId \in Ids, targetId \in Ids, damage \in ToolDamages :
        WrapHandler(AuditEntry("execute_combat_action", session, id,
                               [Args("attack", actorId, targetId) EXCEPT !.damage = damage],
                               NoCreate))

RecMove ==
    \E session \in Callers, id \in DOMAIN store : \E target \in Cells :
        WrapHandler(AuditEntry("execute_combat_action", session, id,
                               [Args("move", "hero", "") EXCEPT !.targetPosition = target],
                               NoCreate))

RecAdvanceTurn ==
    \E session \in Callers, id \in DOMAIN store :
        WrapHandler(AuditEntry("advance_turn", session, id, Args("none", "", ""), NoCreate))

RecEndEncounter ==
    \E session \in Callers, id \in DOMAIN store :
        WrapHandler(AuditEntry("end_encounter", session, id, Args("none", "", ""), NoCreate))

\* a call of subscribe_to_events: registerEventTools hands the handler to
\* server.tool as it is, so the call leaves the audit log alone
CallSubscribeToEvents ==
    /\ ncalls < MaxCalls
    /\ ~replay.on
    /\ \E topics \in TopicLists, throws \in BOOLEAN :
          /\ Len(bus.subscribers) + Len(topics) <= MaxSubscribers
          /\ bus' = SubscribeToEvents(bus, topics, throws)
          /\ lastCall' = [op |-> "subscribe_to_events", ok |-> TRUE, error |-> "",
                          topics |-> topics]
    /\ ncalls' = ncalls + 1
    /\ UNCHANGED <<engine, twin, registry, store, characters, auditLog, replay,
                   clock, advances, world, magic, worlds, inflight, quests>>

\* the tools the server registers, called in any order
AuditNext ==
    \/ RecCreateEncounter
    \/ RecGetEncounterState
    \/ RecAttack
    \/ RecMove
    \/ RecAdvanceTurn
    \/ RecEndEncounter
    \/ CallSubscribeToEvents
    \/ Tick

SpecAudit == Init /\ [][AuditNext]_vars

ReplayFrame ==
    UNCHANGED <<engine, twin, registry, store, characters, auditLog,
                clock, ncalls, advances, lastCall, world, magic, worlds, inflight, quests, bus>>

\* the replay starts from the state the server starts with
StartReplay ==
    /\ ~replay.on
    /\ auditLog # <<>>
    /\ replay' = [replay EXCEPT !.on = TRUE]
    /\ ReplayFrame

\* the next entry of the log is fed to its handler; a handler error is
\* recorded and the replay continues
ReplayEntry ==
    /\ replay.on
    /\ replay.pos < Len(auditLog)
    /\ replay' = [replay EXCEPT
                    !.pos = @ + 1,
                    !.sys = Dispatch(replay.sys, auditLog[replay.pos + 1], clock).sys]
    /\ ReplayFrame

ReplayNext ==
    \/ RecCreateEncounter
    \/ RecGetEncounterState
    \/ RecAttack
    \/ RecMove
    \/ RecAdvanceTurn
    \/ RecEndEncounter
    \/ StartReplay
    \/ ReplayEntry
    \/ Tick

SpecReplay == Init /\ [][ReplayNext]_vars

----------------------------------------------------------------------------
(* Properties *)

\* the state a caller of session observes for encounter id: the engine kept
\* in memory, else the state the handlers would load from the store
Observed(reg, st, session, id) ==
    IF Key(session, id) \in DOMAIN reg THEN reg[Key(session, id)].state
    ELSE IF id \in DOMAIN st THEN st[id].state
    ELSE NullState

CallMade == ncalls' = ncalls + 1

\* the state the last call acted on, before it acted
Before_(call) == Observed(registry, store, call.session, call.encounterId)

Occurrences(seq, v) == Cardinality({k \in 1..Len(seq) : seq[k] = v})

TurnOrderIsPermutation(state) ==
    /\ Len(state.turnOrder) = Len(state.participants)
    /\ \A i \in 1..Len(state.participants) :
          Occurrences(state.turnOrder, state.participants[i].id) = 1
    /\ 0 <= state.currentTurnIndex
    /\ state.currentTurnIndex < Len(state.turnOrder)

\* C1: in every encounter state reached through the handlers, turnOrder is a
\* permutation of the participants' ids, each id appearing exactly once, and
\* 0 <= currentTurnIndex < |turnOrder|
C1_TurnOrderPermutation ==
    \A k \in DOMAIN registry :
        registry[k].state.active => TurnOrderIsPermutation(registry[k].state)

\* the failures of a combat call: unknown encounter, actor or target,
\* blocked or unreachable destination
Failures == {"Encounter not found", "No active encounter", "No active combat",
             "No combat state", "Actor not found", "Target not found",
             "Destination is blocked", "No valid path"}

\* C2: a combat call that fails leaves the state of every encounter exactly
\* as it was before the call
C2_FailedCallChangesNothing ==
    [][(CallMade /\ ~lastCall'.ok /\ lastCall'.error \in Failures)
          => \A session \in Sessions, id \in DOMAIN store :
                Observed(registry', store', session, id)
                    = Observed(registry, store, session, id)]_vars

\* C3: every participant of the engine has 0 <= hp <= maxHp, whatever
\* integer amounts the attacks, heals and ongoing effects were given
C3_HpWithinBounds ==
    engine.state.active =>
        \A i \in 1..Len(engine.state.participants) :
            /\ 0 <= engine.state.participants[i].hp
            /\ engine.state.participants[i].hp <= engine.state.participants[i].maxHp

\* C4: after k turn advances of an encounter with n participants,
\* round = 1 + floor(k / n) and currentTurnIndex = k mod n (round 1 and
\* index 0 at the start, the round growing by one exactly when the index wraps)
C4_RoundAndIndexFollowAdvances ==
    engine.state.active =>
        /\ engine.state.round = 1 + (advances \div Len(engine.state.turnOrder))
        /\ engine.state.currentTurnIndex = advances % Len(engine.state.turnOrder)

\* three advances of a two-participant encounter: round 2, second slot
C4_Witness ==
    /\ engine.state.active
    /\ Len(engine.state.turnOrder) = 2
    /\ advances = 3
    /\ engine.state.round = 2
    /\ engine.state.currentTurnIndex = 1

\* whether the participant actorId holds the turn in state
HoldsTurn(state, actorId) ==
    /\ state.active
    /\ state.currentTurnIndex + 1 \in 1..Len(state.turnOrder)
    /\ state.turnOrder[state.currentTurnIndex + 1] = actorId

\* whether an incapacitating condition (or defeat) blocks actorId in state
Blocked(state, actorId) ==
    LET i == Find(state.participants, actorId)
    IN \/ i = 0
       \/ state.participants[i].hp <= 0
       \/ \E k \in 1..Len(state.participants[i].conditions) :
             state.participants[i].conditions[k].type \in Incapacitating

\* the call before this one was an executed attack of the same actor in
\* the same encounter: its action slot is used
SlotJustUsed(call) ==
    /\ lastCall.op = "attack" /\ lastCall.ok
    /\ lastCall.session = call.session
    /\ lastCall.encounterId = call.encounterId
    /\ lastCall.actorId = call.actorId

\* C5: an attack is executed only if it is the actor's turn, its action slot
\* is unused and no incapacitating condition blocks it
C5_AttackOnlyWhenPermitted ==
    [][(CallMade /\ lastCall'.op = "attack" /\ lastCall'.ok)
          => /\ HoldsTurn(Before_(lastCall'), lastCall'.actorId)
             /\ ~SlotJustUsed(lastCall')
             /\ ~Blocked(Before_(lastCall'), lastCall'.actorId)]_vars

HpOf(state, id) ==
    LET i == Find(state.participants, id)
    IN IF i = 0 THEN 0 ELSE state.participants[i].hp

\* C6: an attack, heal or move whose actor has hp 0 is rejected
C6_DefeatedActorRejected ==
    [][(CallMade /\ lastCall'.op \in {"attack", "heal", "move"}
          /\ Find(Before_(lastCall').participants, lastCall'.actorId) # 0
          /\ HpOf(Before_(lastCall'), lastCall'.actorId) <= 0)
          => ~lastCall'.ok]_vars

\* C7: when endEncounter succeeds the encounter is completed and absent from
\* the registry, and a following get, execute or advance naming it fails
C7_EndedEncounterIsGone ==
    [][/\ (CallMade /\ lastCall'.op = "end" /\ lastCall'.ok)
            => /\ Key(lastCall'.session, lastCall'.encounterId) \notin DOMAIN registry'
               /\ lastCall'.encounterId \in DOMAIN store'
                    => store'[lastCall'.encounterId].status = "completed"
       /\ (CallMade /\ lastCall.op = "end" /\ lastCall.ok
             /\ lastCall'.op \in {"get", "attack", "heal", "move", "disengage", "advance"}
             /\ lastCall'.session = lastCall.session
             /\ lastCall'.encounterId = lastCall.encounterId)
            => ~lastCall'.ok]_vars

\* C8: endEncounter writes each participant's final hp to the Character of
\* the same id, so that getCharacter returns it, and writes nothing for a
\* participant without a Character
C8_EndEncounterSyncsHp ==
    [][(CallMade /\ lastCall'.op = "end" /\ lastCall'.ok)
          => LET final == Before_(lastCall')
             IN /\ DOMAIN characters' = DOMAIN characters
                /\ \A i \in 1..Len(final.participants) :
                      final.participants[i].id \in DOMAIN characters
                        => GetCharacterHp(characters', final.participants[i].id)
                              = final.participants[i].hp
                /\ \A c \in DOMAIN characters :
                      (\A i \in 1..Len(final.participants) : final.participants[i].id # c)
                        => characters'[c] = characters[c]]_vars

\* C9: two engines created with the same seed and driven by the same calls
\* are in identical states, generated identifiers and timestamps included
C9_SameSeedSameCallsSameState == twin = engine

\* C10: when the replay of the audit log has fed every entry to its handler,
\* the state it rebuilt equals the state in which the original run ended
C10_ReplayYieldsOriginalState ==
    (replay.on /\ replay.pos = Len(auditLog)) => replay.sys = Sys

\* C11: a call of one session on an encounter id whose engine only another
\* session holds neither observes that encounter (it fails) nor changes what
\* the holding session observes for it
C11_SessionsShareNoEncounterState ==
    [][\A s \in Sessions : \A t \in Sessions \ {s} :
          (/\ CallMade
           /\ lastCall'.op # "create"
           /\ lastCall'.session = s
           /\ Key(t, lastCall'.encounterId) \in DOMAIN registry
           /\ Key(s, lastCall'.encounterId) \notin DOMAIN registry)
          => /\ ~lastCall'.ok
             /\ Observed(registry', store', t, lastCall'.encounterId)
                  = Observed(registry, store, t, lastCall'.encounterId)]_vars

TileCount(w) == Cardinality(DOMAIN w.tiles)
StructureCount(w) == Len(w.structures)

\* a line of a script that is a command and fails validation or the bounds
\* check against w
CommandFails(line, w) ==
    /\ ~Skipped(line)
    /\ \/ ~ParseLine(line).ok
       \/ ~InBounds(w, ParseLine(line).command)

\* C12: an apply whose script has a command that fails validation or the
\* bounds check writes nothing: the world, and so its tile and structure
\* counts, are as before the call and the call fails
C12_PatchApplyIsAllOrNothing ==
    [][(/\ CallMade /\ lastCall'.op = "apply" /\ world.present
        /\ \E i \in 1..Len(lastCall'.script) : CommandFails(lastCall'.script[i], world))
          => /\ ~lastCall'.ok
             /\ TileCount(world') = TileCount(world)
             /\ StructureCount(world') = StructureCount(world)
             /\ world' = world]_vars

\* an apply of a valid command followed by an out-of-bounds one has failed
\* and the world has no structure
C12_Witness ==
    /\ lastCall.op = "apply" /\ ~lastCall.ok /\ world.present
    /\ Len(lastCall.script) = 2
    /\ ParseLine(lastCall.script[1]).ok
    /\ InBounds(world, ParseLine(lastCall.script[1]).command)
    /\ ParseLine(lastCall.script[1]).command.command = "ADD_STRUCTURE"
    /\ ParseLine(lastCall.script[2]).ok
    /\ ~InBounds(world, ParseLine(lastCall.script[2]).command)
    /\ StructureCount(world) = 0

\* the commands of a script, decoded line by line
DecodedFrom(script, i) ==
    [k \in 1..Cardinality({j \in i..Len(script) : ~Skipped(script[j])}) |->
        ParseLine(script[CHOOSE j \in i..Len(script) :
                            /\ ~Skipped(script[j])
                            /\ Cardinality({m \in i..j : ~Skipped(script[m])}) = k]).command]

\* C13: a preview changes nothing of the world; when it succeeds it returns
\* the commands of the script, decoded in order, and willModify; the tile and
\* structure counts change only in a call that is not a preview
C13_PreviewDoesNotMutate ==
    [][(CallMade /\ lastCall'.op = "preview")
          => /\ world' = world
             /\ TileCount(world') = TileCount(world)
             /\ StructureCount(world') = StructureCount(world)
             /\ lastCall'.ok
                  => /\ lastCall'.commands = DecodedFrom(lastCall'.script, 1)
                     /\ lastCall'.willModify = (lastCall'.commands # <<>>)]_vars

\* a preview of a one-command ADD_STRUCTURE script has succeeded on a world
\* that still has no structure
C13_Witness ==
    /\ lastCall.op = "preview" /\ lastCall.ok /\ lastCall.willModify
    /\ Len(lastCall.commands) = 1
    /\ lastCall.commands[1].command = "ADD_STRUCTURE"
    /\ world.present /\ StructureCount(world) = 0
    /\ ncalls >= 3

\* the step is a turn advance that starts the turn of the participant in
\* slot i of the turn order (participants[i] since startEncounter)
TurnStartsFor(i) ==
    advances' = advances + 1 /\ engine'.state.currentTurnIndex + 1 = i

\* the step is a turn advance that ends the turn of the participant in slot i
TurnEndsFor(i) ==
    advances' = advances + 1 /\ engine.state.currentTurnIndex + 1 = i

\* the durations of the condition cid on participants[i]; empty if not held
DurationsIn(eng, i, cid) ==
    {eng.state.participants[i].conditions[k].duration :
        k \in {j \in 1..Len(eng.state.participants[i].conditions) :
                 eng.state.participants[i].conditions[j].id = cid}}

\* C14: a rounds condition with counter d >= 1 on a participant goes to d - 1
\* in a step that starts that participant's turn, is removed in that step if
\* d - 1 = 0, and is untouched by every other step, the turn starts of the
\* other participants included
C14_RoundsCountedAtOwnersTurnStart ==
    [][engine.state.active =>
        \A i \in 1..Len(engine.state.participants) :
          \A k \in 1..Len(engine.state.participants[i].conditions) :
            LET c == engine.state.participants[i].conditions[k]
            IN (c.durationType = "rounds" /\ c.duration # Undefined /\ c.duration >= 1)
                 => DurationsIn(engine', i, c.id)
                      = IF TurnStartsFor(i)
                        THEN (IF c.duration = 1 THEN {} ELSE {c.duration - 1})
                        ELSE {c.duration}]_vars

\* whether the ongoing effect e draws a die when trigger occurs
DrawsDie(e, trigger) ==
    /\ e.trigger = trigger
    /\ e.amount \in {Undefined, 0}
    /\ e.type = "damage" /\ e.dice # Undefined

\* whether the condition c is a save_ends condition with a save to roll
HasSave(c) ==
    c.durationType = "save_ends" /\ c.saveDC \notin {Undefined, 0} /\ c.saveAbility # ""

\* the dice drawn at the end of a turn before the save of conds[k]: the dice
\* of the effects of conds[1..k] and the saves of conds[1..k-1]
DrawsBefore(conds, k) ==
    Cardinality({<<j, m>> \in (1..k) \X (1..2) :
                    /\ m \in 1..Len(conds[j].ongoingEffects)
                    /\ DrawsDie(conds[j].ongoingEffects[m], "end_of_turn")})
    + Cardinality({j \in 1..(k - 1) : HasSave(conds[j])})

\* the ability modifier of participant p: floor((score - 10) / 2), 0 without scores
AbilityModifier(p, ability) ==
    IF p.abilityScores.present THEN (p.abilityScores[ability] - 10) \div 2 ELSE 0

AfterEffect(p, e, v) ==
    IF e.type = "damage" THEN (IF p.hp - v < 0 THEN 0 ELSE p.hp - v)
    ELSE (IF p.hp + v > p.maxHp THEN p.maxHp ELSE p.hp + v)

\* C16: a start_of_turn condition is removed exactly in a step that starts its
\* owner's turn and an end_of_turn condition exactly in a step that ends it,
\* never in a step that starts or ends only another participant's turn; when
\* it is removed its effect for that trigger has been applied to the owner
C16_TurnBoundConditionsExpireOnOwnersTurn ==
    [][engine.state.active =>
        \A i \in 1..Len(engine.state.participants) :
          \A k \in 1..Len(engine.state.participants[i].conditions) :
            LET p == engine.state.participants[i]
                c == p.conditions[k]
                gone == DurationsIn(engine', i, c.id) = {}
            IN /\ c.durationType = "start_of_turn" => (gone <=> TurnStartsFor(i))
               /\ c.durationType = "end_of_turn" => (gone <=> TurnEndsFor(i))
               /\ (/\ c.durationType \in {"start_of_turn", "end_of_turn"}
                   /\ gone
                   /\ Len(p.conditions) = 1
                   /\ Len(c.ongoingEffects) = 1
                   /\ c.ongoingEffects[1].trigger = c.durationType
                   /\ c.ongoingEffects[1].amount # Undefined)
                    => engine'.state.participants[i].hp
                         = AfterEffect(p, c.ongoingEffects[1], c.ongoingEffects[1].amount)]_vars

\* the participants of the engine have pairwise distinct ids
DistinctIds(eng) ==
    \A i, j \in 1..Len(eng.state.participants) :
        eng.state.participants[i].id = eng.state.participants[j].id => i = j

\* the number of conditions held in the engine
ConditionsHeld(eng) ==
    Cardinality({<<i, k>> \in (1..Len(eng.state.participants)) \X (1..MaxConditions) :
                    k <= Len(eng.state.participants[i].conditions)})

\* C17: in an encounter with distinct ids, a turn advance applies the one
\* ongoing effect of the one condition held, once, to its owner (whose hp is
\* within 0..maxHp) if the advance
\* is the effect's trigger for the owner (its turn starts, or ends), and leaves
\* the owner's hp alone otherwise; the value applied is the effect's amount,
\* or its die rolled on the engine's RNG, for damage and for healing
C17_OngoingEffectFiresOncePerTrigger ==
    [][(/\ engine.state.active /\ DistinctIds(engine)
        /\ advances' = advances + 1
        /\ ConditionsHeld(engine) = 1)
         => \A i \in 1..Len(engine.state.participants) :
              \A k \in 1..Len(engine.state.participants[i].conditions) :
                LET p == engine.state.participants[i]
                    e == p.conditions[k].ongoingEffects[1]
                    fires == \/ e.trigger = "start_of_turn" /\ TurnStartsFor(i)
                             \/ e.trigger = "end_of_turn" /\ TurnEndsFor(i)
                    value == IF e.amount # Undefined THEN e.amount
                             ELSE Die(engine.rng, e.dice)
                IN (Len(p.conditions[k].ongoingEffects) = 1 /\ p.hp \in 0..p.maxHp)
                     => engine'.state.participants[i].hp
                          = IF fires THEN AfterEffect(p, e, value) ELSE p.hp]_vars

\* C18: a move whose opportunity attacks take the mover from above 0 hp to 0
\* leaves the mover's position at the pre-move cell
C18_DefeatedMoverStaysInPlace ==
    [][(CallMade /\ lastCall'.op = "move")
          => LET before == Before_(lastCall')
                 after == Observed(registry', store', lastCall'.session,
                                   lastCall'.encounterId)
                 i == Find(before.participants, lastCall'.actorId)
             IN (/\ i # 0
                 /\ before.participants[i].position # NoPos
                 /\ before.participants[i].hp > 0
                 /\ after.participants[i].hp <= 0)
                  => /\ after.participants[i].position = before.participants[i].position
                     /\ ~lastCall'.ok]_vars

\* the second call of the behaviour was a move of a hero created with 1 hp at
\* (1,0): the opportunity attack of the goblin next to it took it to 0 hp and
\* it is still at (1,0)
C18_Witness ==
    /\ ncalls = 2
    /\ lastCall.op = "move" /\ ~lastCall.ok /\ lastCall.actorId = "hero"
    /\ LET state == Observed(registry, store, lastCall.session, lastCall.encounterId)
           i == Find(state.participants, "hero")
       IN /\ i # 0
          /\ state.participants[i].hp = 0
          /\ state.participants[i].position = [x |-> 1, y |-> 0]
          /\ \E j \in 1..Len(state.participants) : state.participants[j].reactionUsed

\* C19: every participant of every encounter has, at every point, a
\* movementRemaining of at least 0 and at most twice its movementSpeed,
\* whatever moves and dashes were made
C19_MovementRemainingWithinTwiceSpeed ==
    \A key \in DOMAIN registry :
        \A i \in 1..Len(registry[key].state.participants) :
            LET p == registry[key].state.participants[i]
            IN /\ "movementSpeed" \in DOMAIN p
               /\ "movementRemaining" \in DOMAIN p
               /\ 0 <= p.movementRemaining
               /\ p.movementRemaining <= 2 * p.movementSpeed

\* C20: a dash by a participant of the encounter is accepted, adds the
\* participant's movementSpeed to its movementRemaining and sets hasDashed
C20_DashAddsSpeedToMovement ==
    [][(CallMade /\ lastCall'.op = "dash")
          => LET before == Before_(lastCall')
                 after == Observed(registry', store', lastCall'.session, lastCall'.encounterId)
                 i == Find(before.participants, lastCall'.actorId)
             IN (before.active /\ i # 0)
                  => /\ lastCall'.ok
                     /\ "hasDashed" \in DOMAIN after.participants[i]
                     /\ after.participants[i].hasDashed
                     /\ "movementRemaining" \in DOMAIN after.participants[i]
                     /\ "movementRemaining" \in DOMAIN before.participants[i]
                     /\ "movementSpeed" \in DOMAIN before.participants[i]
                     /\ after.participants[i].movementRemaining
                          = before.participants[i].movementRemaining
                              + before.participants[i].movementSpeed]_vars

\* the number of tiles between two cells (Chebyshev distance)
Tiles(p, q) == Max(Abs(p.x - q.x), Abs(p.y - q.y))

\* C21: a successful move over k tiles leaves the mover on a cell of the
\* grid k tiles away and decreases its movementRemaining by 5 * k feet
C21_MoveSpendsFiveFeetPerTile ==
    [][(CallMade /\ lastCall'.op = "move" /\ lastCall'.ok)
          => LET before == Before_(lastCall')
                 after == Observed(registry', store', lastCall'.session, lastCall'.encounterId)
                 i == Find(before.participants, lastCall'.actorId)
             IN (i # 0 /\ before.participants[i].position # NoPos)
                  => /\ after.participants[i].position \in Cells
                     /\ "movementRemaining" \in DOMAIN before.participants[i]
                     /\ "movementRemaining" \in DOMAIN after.participants[i]
                     /\ after.participants[i].movementRemaining
                          = before.participants[i].movementRemaining
                              - 5 * Tiles(before.participants[i].position,
                                          after.participants[i].position)]_vars

\* the hp of the first participant named id in the engine eng
EngineHp(eng, id) == eng.state.participants[Find(eng.state.participants, id)].hp
EngineMaxHp(eng, id) == eng.state.participants[Find(eng.state.participants, id)].maxHp

\* a heal of amount a on a target with h of m hit points leaves hp hp1 and
\* reports healed: hp1 = min(m, h + a) lies in [h, m], and the part of a
\* above m - h is the wasted overflow
HealClamped(a, h, m, hp1, healed) ==
    /\ hp1 = Min(m, h + a)
    /\ h <= hp1
    /\ hp1 <= m
    /\ a - healed = Max(0, a - (m - h))

\* C22: a heal with amount a on a target with hit points h and maximum m
\* sets hp to min(m, h + a), a value in [h, m], and the part of a above
\* m - h is recorded as wasted
C22_HealClampsBetweenHpAndMax ==
    [][(CallMade /\ lastCall'.op = "heal" /\ lastCall'.ok)
          => \A a \in HealAmounts :
                (engine' = ExecuteHeal(engine, lastCall'.actorId,
                                       lastCall'.targetId, a).eng)
                  => HealClamped(a,
                        EngineHp(engine, lastCall'.targetId),
                        EngineMaxHp(engine, lastCall'.targetId),
                        EngineHp(engine', lastCall'.targetId),
                        ExecuteHeal(engine, lastCall'.actorId,
                                    lastCall'.targetId, a).healAmount)]_vars

\* the attack roll the engine draws next
NextAttackRoll(eng) == CheckDegreeDetailed(eng.rng, AttackBonus, AttackDC)

\* the engine-level attack just made was made with damage d
AttackedWith(d) ==
    engine' = ExecuteAttack(engine, lastCall'.actorId, lastCall'.targetId,
                            AttackBonus, AttackDC, d).eng

\* C23: when an attack with damage d hits, the target's hp decreases by d,
\* stopping at 0; when it misses, the target's hp is unchanged
C23_HitLowersHpByDamage ==
    [][(CallMade /\ lastCall'.op = "attack" /\ lastCall'.ok)
          => \A d \in Damages :
                AttackedWith(d)
                  => EngineHp(engine', lastCall'.targetId)
                       = IF NextAttackRoll(engine).isHit
                         THEN Max(0, EngineHp(engine, lastCall'.targetId) - d)
                         ELSE EngineHp(engine, lastCall'.targetId)]_vars

\* C23 as amended: a hit that is not critical lowers the target's hp by d, a
\* critical hit by 2 * d, both stopping at 0; a miss leaves it unchanged
C23_HitLowersHpByDamageTwiceOnCritical ==
    [][(CallMade /\ lastCall'.op = "attack" /\ lastCall'.ok)
          => \A d \in Damages :
                AttackedWith(d)
                  => EngineHp(engine', lastCall'.targetId)
                       = IF NextAttackRoll(engine).isCrit
                         THEN Max(0, EngineHp(engine, lastCall'.targetId) - 2 * d)
                         ELSE IF NextAttackRoll(engine).isHit
                         THEN Max(0, EngineHp(engine, lastCall'.targetId) - d)
                         ELSE EngineHp(engine, lastCall'.targetId)]_vars

\* a critical hit has just taken the target from full hit points to 0
C23_Witness ==
    /\ lastCall.op = "attack" /\ lastCall.ok /\ lastCall.hit
    /\ ncalls = 2
    /\ engine.rng.n > 0
    /\ CheckDegreeDetailed([engine.rng EXCEPT !.n = @ - 1], AttackBonus, AttackDC).isCrit
    /\ EngineHp(engine, lastCall.targetId) = 0
    /\ EngineMaxHp(engine, lastCall.targetId) = 2

\* the damage an attack of raw damage r and type FireType is to apply to target
Scaled(r, target) ==
    IF FireType \in target.immunities THEN 0
    ELSE IF FireType \in target.vulnerabilities THEN 2 * r
    ELSE IF FireType \in target.resistances THEN r \div 2
    ELSE r

\* C24: an attack that hits with raw damage r and a damageType leaves the hp
\* of an immune target unchanged, applies 2 * r to a vulnerable target and
\* floor(r / 2) to a resistant one
C24_DamageScaledByModifiers ==
    [][(CallMade /\ lastCall'.op = "attack" /\ lastCall'.ok /\ lastCall'.hit
          /\ Key(lastCall'.session, lastCall'.encounterId) \in DOMAIN registry)
          => LET before == registry[Key(lastCall'.session, lastCall'.encounterId)]
                 after == registry'[Key(lastCall'.session, lastCall'.encounterId)]
                 target == before.state.participants[
                              Find(before.state.participants, lastCall'.targetId)]
                 raw == IF NextAttackRoll(before).isCrit
                        THEN 2 * FireDamage ELSE FireDamage
             IN (FireType \in target.immunities \cup target.vulnerabilities
                                \cup target.resistances)
                  => EngineHp(after, lastCall'.targetId)
                       = Max(0, target.hp - Scaled(raw, target))]_vars

\* the participants ps are in descending order of initiative, ties in
\* ascending order of id, and order lists their ids
OrderedByInitiative(ps, order) ==
    /\ order = [i \in 1..Len(ps) |-> ps[i].id]
    /\ \A i \in 1..(Len(ps) - 1) :
          \/ ps[i].initiative > ps[i + 1].initiative
          \/ /\ ps[i].initiative = ps[i + 1].initiative
             /\ IdRank(ps[i].id) <= IdRank(ps[i + 1].id)

\* ps are the participants parts, each with the initiative of its own d20 of
\* the stream rng (drawn in the order of parts) plus its initiativeBonus
RolledFrom(rng, parts, ps) ==
    /\ Len(ps) = Len(parts)
    /\ \E perm \in [1..Len(parts) -> 1..Len(parts)] :
          /\ \A j, k \in 1..Len(parts) : perm[j] = perm[k] => j = k
          /\ \A k \in 1..Len(parts) :
                /\ ps[perm[k]].id = parts[k].id
                /\ ps[perm[k]].initiativeBonus = parts[k].initiativeBonus
                /\ ps[perm[k]].initiative
                     = Die([rng EXCEPT !.n = @ + k - 1], 20) + parts[k].initiativeBonus

\* C25: after startEncounter, turnOrder lists the participants by rolled
\* initiative (d20 + initiativeBonus) in descending order, and participants
\* of equal initiative in ascending order of id
C25_TurnOrderByInitiativeThenId ==
    [][(CallMade /\ lastCall'.op = "startEncounter")
          => /\ OrderedByInitiative(engine'.state.participants, engine'.state.turnOrder)
             /\ \A parts \in InitiativeLists :
                   (engine' = StartEncounter(engine, parts))
                     => RolledFrom(engine.rng, parts, engine'.state.participants)]_vars

\* an encounter of three started with a tie that the sort had to turn round:
\* hero and goblin both at 20, goblin first
C25_Witness ==
    /\ lastCall.op = "startEncounter"
    /\ Len(engine.state.participants) = 3
    /\ engine.state.participants[1].initiative = engine.state.participants[2].initiative
    /\ engine.state.participants[1].id = "goblin"
    /\ engine.state.participants[1].initiativeBonus = 0
    /\ engine.state.participants[2].id = "hero"
    /\ engine.state.participants[2].initiativeBonus = 7

Degrees == {"critical-failure", "failure", "success", "critical-success"}

\* the degree of the natural roll r with modifier against dc, as the claim
\* gives it
Classified(r, modifier, dc, degree) ==
    /\ degree \in Degrees
    /\ r = 20 => degree = "critical-success"
    /\ r = 1 => degree = "critical-failure"
    /\ r \notin {1, 20} =>
          /\ degree = "critical-success" <=> r + modifier >= dc + 10
          /\ degree = "success" <=> (r + modifier >= dc /\ r + modifier < dc + 10)
          /\ degree = "critical-failure" <=>
                (r + modifier < dc /\ r + modifier <= dc - 10)
          /\ degree = "failure" <=> (r + modifier < dc /\ r + modifier > dc - 10)

ConcentrationAuras(m, c) ==
    {k \in 1..Len(m.auras) :
        m.auras[k].ownerId = c /\ m.auras[k].requiresConcentration}

NewDeliveries == SubSeq(bus'.delivered, Len(bus.delivered) + 1, Len(bus'.delivered))

\* C28: publish(topic, payload) invokes every subscriber of the topic exactly
\* once and no other, in registration order, a throwing subscriber included
\* and not stopping the later ones, and no error reaches the publisher
C28_PublishReachesEverySubscriberInOrder ==
    [][(CallMade /\ lastCall'.op = "publish")
        => /\ lastCall'.ok /\ lastCall'.error = ""
           /\ Len(bus'.delivered) >= Len(bus.delivered)
           /\ SubSeq(bus'.delivered, 1, Len(bus.delivered)) = bus.delivered
           /\ bus'.subscribers = bus.subscribers
           /\ \A k \in 1..Len(bus.subscribers) :
                 Cardinality({j \in 1..Len(NewDeliveries) : NewDeliveries[j].sub = k})
                   = IF bus.subscribers[k].topic = lastCall'.topic THEN 1 ELSE 0
           /\ \A j \in 1..Len(NewDeliveries) :
                 /\ NewDeliveries[j].topic = lastCall'.topic
                 /\ NewDeliveries[j].payload = lastCall'.payload
                 /\ \A i \in 1..(j - 1) : NewDeliveries[i].sub < NewDeliveries[j].sub]_vars

\* two subscriptions, then one publish: it reached the subscriber that
\* threw and then the one registered after it
C28_Witness ==
    /\ ncalls = 3
    /\ lastCall.op = "publish" /\ lastCall.ok
    /\ Len(bus.delivered) = 2
    /\ bus.delivered[1].threw /\ bus.delivered[1].sub = 1
    /\ ~bus.delivered[2].threw /\ bus.delivered[2].sub = 2

\* the event an operation of the engine publishes, read off the state the
\* operation left behind
EventOf(call, eng) ==
    CASE call.op = "startEncounter" -> {[type |-> "encounter_started", state |-> eng.state]}
      [] call.op = "attack" ->
            {[type |-> "attack_executed", hit |-> call.hit,
              targetHp |-> EngineHp(eng, call.targetId)]}
      [] call.op = "heal" ->
            {[type |-> "heal_executed", amount |-> a,
              targetHp |-> EngineHp(eng, call.targetId)] : a \in -1..EngineMaxHp(eng, call.targetId)}
      [] call.op = "advanceTurn" ->
            {[type |-> "turn_changed", round |-> eng.state.round,
              activeParticipantId |-> eng.state.turnOrder[eng.state.currentTurnIndex + 1]]}
      [] OTHER -> {}

CombatSubscribers(b) == {k \in 1..Len(b.subscribers) : b.subscribers[k].topic = "combat"}

C30_AuditLogIsDispatchSequence ==
    [][CallMade => /\ Len(auditLog') = Len(auditLog) + 1
                   /\ SubSeq(auditLog', 1, Len(auditLog)) = auditLog
                   /\ Len(auditLog') = ncalls']_vars

\* C31: create_encounter called while the caller's session already has an
\* encounter is rejected with a State error and starts no second encounter
C31_SecondEncounterRejected ==
    [][(/\ CallMade
        /\ lastCall'.op = "create"
        /\ \E k \in DOMAIN registry : k.session = lastCall'.session)
       => /\ ~lastCall'.ok
          /\ lastCall'.error = "State"
          /\ registry' = registry
          /\ store' = store]_vars

\* C37: a successful create_encounter yields an id that is neither stored
\* nor registered yet, and no create_encounter call replaces an encounter
\* that exists: every registered engine and stored record stays as it was
C37_CreatedIdIsFresh ==
    [][(CallMade /\ lastCall'.op = "create")
       => /\ lastCall'.ok =>
                /\ lastCall'.encounterId \notin DOMAIN store
                /\ \A k \in DOMAIN registry : k.id # lastCall'.encounterId
          /\ \A k \in DOMAIN registry : k \in DOMAIN registry' /\ registry'[k] = registry[k]
          /\ \A id \in DOMAIN store : id \in DOMAIN store' /\ store'[id] = store[id]]_vars

\* the lines of a script that are commands and do not parse: an unknown
\* command, a missing or malformed argument
Offending(script) ==
    {i \in 1..Len(script) : ~Skipped(script[i]) /\ ~ParseLine(script[i]).ok}

\* C32: parsing a script with an unknown command or a command short of a
\* required argument fails, the error names the 1-based number of the first
\* such line among all lines of the script, blank lines and comments
\* counted, and no command is returned
C32_ParseErrorNamesLine ==
    [][(CallMade /\ lastCall'.op = "parseDSL" /\ Offending(lastCall'.script) # {})
       => /\ ~lastCall'.ok
          /\ lastCall'.line \in Offending(lastCall'.script)
          /\ \A i \in Offending(lastCall'.script) : lastCall'.line <= i
          /\ lastCall'.commands = <<>>]_vars

\* a script of a comment and an unknown command was rejected at line 2
C32_Witness ==
    /\ lastCall.op = "parseDSL" /\ ~lastCall.ok
    /\ Len(lastCall.script) = 2
    /\ lastCall.script[1].hash
    /\ lastCall.script[2].tokens[1].key = "INVALID_COMMAND"
    /\ lastCall.line = 2
    /\ lastCall.commands = <<>>

\* C33: a world generation asked with a width below 1 or a landRatio that is
\* not strictly between 0 and 1 fails with an error, and neither the
\* repository nor the WorldManager holds a world more than before
C33_InvalidWorldIsNotPersisted ==
    [][(/\ CallMade
        /\ lastCall'.op = "generate"
        /\ \/ lastCall'.width < 1
           \/ /\ lastCall'.landRatio.given
              /\ lastCall'.landRatio.tenths \notin 1..9)
       => /\ ~lastCall'.ok
          /\ lastCall'.error # ""
          /\ worlds'.store = worlds.store
          /\ worlds'.manager = worlds.manager]_vars

\* after a world was generated, a generation of width 0 on a map the generator
\* would not have thrown on was refused and only the first world is kept
C33_Witness ==
    /\ lastCall.op = "generate" /\ ~lastCall.ok
    /\ lastCall.width = 0 /\ lastCall.height = 10
    /\ ~GenerateHeightmap(lastCall.width, lastCall.height, lastCall.landRatio).thrown
    /\ Cardinality(worlds.store) = 1
    /\ worlds.manager = worlds.store

C36_AutoLoadedEngineEqualsKeptEngine ==
    [][(/\ CallMade
        /\ ncalls = 1 /\ lastCall.op = "create" /\ lastCall.ok
        /\ lastCall'.op = "get" /\ lastCall'.ok
        /\ lastCall'.session # lastCall.session
        /\ lastCall'.encounterId = lastCall.encounterId)
       => /\ Key(lastCall'.session, lastCall.encounterId) \in DOMAIN registry'
          /\ registry'[Key(lastCall'.session, lastCall.encounterId)]
                = registry[Key(lastCall.session, lastCall.encounterId)]]_vars

\* the conditions of participant i whose duration type is timed
TimedHeld(i) ==
    IF i <= Len(engine.state.participants)
    THEN {engine.state.participants[i].conditions[k].id :
            k \in {j \in 1..Len(engine.state.participants[i].conditions) :
                     engine.state.participants[i].conditions[j].durationType
                        \in TimedDurations}}
    ELSE {}

\* C38: while turns keep being advanced, every condition whose duration
\* type is rounds, start_of_turn or end_of_turn is eventually removed:
\* conditions are applied finitely often, so a participant that holds
\* such conditions eventually holds none
C38_TimedConditionsExpire ==
    \A i \in 1..2 : (TimedHeld(i) # {}) ~> (TimedHeld(i) = {})

\* C39: one advance of the turn changes hp and conditions only of the
\* participant whose turn ends and of the participant whose turn starts:
\* every other participant keeps its hp and its conditions, and the
\* participants listed and the turn order stay as they are
C39_AdvanceTouchesOnlyEndingAndStarting ==
    [][(CallMade /\ lastCall'.op = "advanceTurn")
       => /\ engine'.state.turnOrder = engine.state.turnOrder
          /\ Len(engine'.state.participants) = Len(engine.state.participants)
          /\ \A i \in 1..Len(engine.state.participants) :
                /\ engine'.state.participants[i].id = engine.state.participants[i].id
                /\ i \notin {engine.state.currentTurnIndex + 1,
                              engine'.state.currentTurnIndex + 1}
                     => /\ engine'.state.participants[i].hp
                            = engine.state.participants[i].hp
                        /\ engine'.state.participants[i].conditions
                            = engine.state.participants[i].conditions]_vars

NoDuplicates(seq) == \A j, k \in 1..Len(seq) : seq[j] = seq[k] => j = k

\* C40: in every quest log the active and the completed quests are
\* disjoint and without duplicates, and a quest is among the completed
\* quests of a character only if it was assigned to that character with
\* all its prerequisites completed and every one of its objectives was
\* completed while the quest was active for that character
C40_QuestLogsAreConsistent ==
    \A c \in DOMAIN quests.logs :
        /\ NoDuplicates(quests.logs[c].activeQuests)
        /\ NoDuplicates(quests.logs[c].completedQuests)
        /\ \A id \in 1..MaxQuests :
              ~(InSeq(id, quests.logs[c].activeQuests)
                    /\ InSeq(id, quests.logs[c].completedQuests))
        /\ \A id \in 1..MaxQuests :
              InSeq(id, quests.logs[c].completedQuests)
                => /\ <<c, id, TRUE>> \in quests.assigned
                   /\ \A o \in DOMAIN quests.quests[id].objectives :
                         <<c, id, o>> \in quests.done

====
